---- MODULE Spec2Model ----
(***************************************************************************)
(* A model of the BAS file-IPC bridge (bas_client.py).                      *)
(*                                                                         *)
(* Part 1: the hex codec and the correlation channel of BASClient          *)
(*         (_write_command, _read_response, _call, ping), at the level of  *)
(*         the bytes of the two files.  Specification: Spec.               *)
(* Part 2: the ephemeral-action operations built on _call (load_page,      *)
(*         get_page_html_safe, execute_browser_js, take_screenshot,        *)
(*         check_element), at the level of the Python values exchanged.    *)
(*         Specification: SpecEph.                                         *)
(*                                                                         *)
(* Text is a sequence of character codes; a file is its content, or NoFile.*)
(* Time is counted in ticks of the poll interval (0.05 s).                 *)
(***************************************************************************)
EXTENDS Integers, Sequences, FiniteSets, TLC

(* ------------------------------ bounds -------------------------------- *)
\* request ids are drawn from 1..MaxId (the code draws from 100000000..999999999)
MaxId == 2
\* the host leaves at most this many lines in the inbound file
MaxLines == 2
\* the clock stops advancing here
MaxClock == 2
\* timeouts are drawn from 1..MaxTimeout ticks
MaxTimeout == 1
\* calls issued on the channel in one behaviour
MaxCalls == 2

Ids == 1..MaxId

(* ------------------------------ codec --------------------------------- *)
\* the value a failed conversion yields (an exception in the code)
Fail == <<-1>>
NoFile == <<-2>>

RECURSIVE Flatten(_)
Flatten(ss) == IF ss = <<>> THEN <<>> ELSE Head(ss) \o Flatten(Tail(ss))

\* str.encode('utf-8') of one code point; lone surrogates are not encodable
Utf8EncodeChar(cp) ==
    IF cp < 128 THEN <<cp>>
    ELSE IF cp < 2048 THEN <<192 + (cp \div 64), 128 + (cp % 64)>>
    ELSE IF cp >= 55296 /\ cp <= 57343 THEN Fail
    ELSE IF cp < 65536
         THEN <<224 + (cp \div 4096), 128 + ((cp \div 64) % 64), 128 + (cp % 64)>>
    ELSE <<240 + (cp \div 262144), 128 + ((cp \div 4096) % 64),
           128 + ((cp \div 64) % 64), 128 + (cp % 64)>>

\* is cp a code point str.encode('utf-8') accepts
Encodable(cp) == cp < 55296 \/ cp > 57343

Utf8Encode(s) ==
    IF \E i \in 1..Len(s) : ~Encodable(s[i]) THEN Fail
    ELSE Flatten([i \in 1..Len(s) |-> Utf8EncodeChar(s[i])])

\* number of continuation bytes a lead byte announces (0: not a lead byte)
Utf8Need(b) ==
    IF b >= 194 /\ b <= 223 THEN 1
    ELSE IF b >= 224 /\ b <= 239 THEN 2
    ELSE IF b >= 240 /\ b <= 244 THEN 3
    ELSE 0

\* is c an acceptable k-th continuation byte after lead byte b
Utf8ContOk(b, k, c) ==
    IF k > 1 THEN c >= 128 /\ c <= 191
    ELSE IF b = 224 THEN c >= 160 /\ c <= 191
    ELSE IF b = 237 THEN c >= 128 /\ c <= 159
    ELSE IF b = 240 THEN c >= 144 /\ c <= 191
    ELSE IF b = 244 THEN c >= 128 /\ c <= 143
    ELSE c >= 128 /\ c <= 191

\* how many of the announced continuation bytes are there and acceptable
Utf8Got(bs, need) ==
    Cardinality({k \in 1..need :
        \A j \in 1..k : j + 1 <= Len(bs) /\ Utf8ContOk(bs[1], j, bs[j + 1])})

Utf8CodePoint(bs, need) ==
    IF need = 1 THEN (bs[1] - 192) * 64 + (bs[2] - 128)
    ELSE IF need = 2
         THEN (bs[1] - 224) * 4096 + (bs[2] - 128) * 64 + (bs[3] - 128)
    ELSE (bs[1] - 240) * 262144 + (bs[2] - 128) * 4096
         + (bs[3] - 128) * 64 + (bs[4] - 128)

\* bytes.decode('utf-8', errors='replace'): never fails, U+FFFD for what is malformed
\* the code point the decoder emits at the head of bs, and the bytes it consumes
Utf8Step(bs, need, got) ==
    IF bs[1] < 128 THEN <<bs[1], 1>>
    ELSE IF need > 0 /\ got = need THEN <<Utf8CodePoint(bs, need), need + 1>>
    ELSE <<65533, got + 1>>

RECURSIVE Utf8DecodeFrom(_, _, _)
Utf8Advance(bs, i, step, acc) == Utf8DecodeFrom(bs, i + step[2], Append(acc, step[1]))

Utf8DecodeAt(rest, need) == Utf8Step(rest, need, Utf8Got(rest, need))

Utf8DecodeFrom(bs, i, acc) ==
    IF i > Len(bs) THEN acc
    ELSE Utf8Advance(bs, i,
                     Utf8DecodeAt(SubSeq(bs, i, Len(bs)), Utf8Need(bs[i])), acc)

\* (mutant) bytes.decode('ascii', errors='replace')
Utf8DecodeReplace_Ascii(bs) == [i \in 1..Len(bs) |-> IF bs[i] < 128 THEN bs[i] ELSE 65533]

Utf8DecodeReplace(bs) ==
    IF \A i \in 1..Len(bs) : bs[i] < 128 THEN bs ELSE Utf8DecodeFrom(bs, 1, <<>>)

HexDigit(n) == IF n < 10 THEN 48 + n ELSE 87 + n

IsHexChar(c) ==
    \/ c >= 48 /\ c <= 57
    \/ c >= 97 /\ c <= 102
    \/ c >= 65 /\ c <= 70

HexVal(c) == IF c <= 57 THEN c - 48 ELSE IF c >= 97 THEN c - 87 ELSE c - 55

\* the whitespace bytes.fromhex skips between two bytes
IsHexSpace(c) == c \in {9, 10, 11, 12, 13, 32}

NotHexSpace(c) == ~IsHexSpace(c)

\* bytes.hex()
BytesHex(bs) ==
    [i \in 1..(2 * Len(bs)) |->
        IF i % 2 = 1 THEN HexDigit(bs[(i + 1) \div 2] \div 16)
        ELSE HexDigit(bs[i \div 2] % 16)]

\* bytes.fromhex(h): pairs of hex digits, whitespace allowed between pairs only
SplitsPair(h) ==
    \E p \in 1..Len(h) :
        /\ IsHexSpace(h[p])
        /\ Cardinality({q \in 1..(p - 1) : ~IsHexSpace(h[q])}) % 2 = 1

BytesOfDigits(ds) ==
    IF Len(ds) % 2 = 1 \/ \E i \in 1..Len(ds) : ~IsHexChar(ds[i]) THEN Fail
    ELSE [i \in 1..(Len(ds) \div 2) |-> 16 * HexVal(ds[2 * i - 1]) + HexVal(ds[2 * i])]

BytesFromHex(h) ==
    IF SplitsPair(h) THEN Fail ELSE BytesOfDigits(SelectSeq(h, NotHexSpace))

\* BASClient._string_to_hex: s.encode('utf-8').hex()
_string_to_hex(s) ==
    IF \E i \in 1..Len(s) : ~Encodable(s[i]) THEN Fail ELSE BytesHex(Utf8Encode(s))

\* BASClient._hex_to_string: bytes.fromhex(h).decode('utf-8', errors='replace')
DecodeBytes(bs) == IF bs = Fail THEN Fail ELSE Utf8DecodeReplace(bs)

_hex_to_string(h) == DecodeBytes(BytesFromHex(h))

(* ------------------------------- JSON --------------------------------- *)
\* A JSON value of the channel: an object with an optional "id" (0: no such key)
\* and an optional "data" member, or something that is not an object.
DataTokens == {"null", "true", "false", "absent"}

JsonObj(id, data) == [ok |-> TRUE, isobj |-> TRUE, id |-> id, data |-> data]
JsonNonObj == [ok |-> TRUE, isobj |-> FALSE, id |-> 0, data |-> "absent"]
JsonError == [ok |-> FALSE, isobj |-> FALSE, id |-> 0, data |-> "absent"]

RECURSIVE Digits(_)
Digits(n) == IF n < 10 THEN <<48 + n>> ELSE Digits(n \div 10) \o <<48 + (n % 10)>>

DataText(d) ==
    CASE d = "null" -> <<110, 117, 108, 108>>
      [] d = "true" -> <<116, 114, 117, 101>>
      [] d = "false" -> <<102, 97, 108, 115, 101>>

\* the text the host's serializer gives a value (compact separators)
Stringify(v) ==
    IF ~v.isobj THEN <<91, 49, 93>>                                  \* [1]
    ELSE <<123>>                                                       \* {
         \o (IF v.id # 0 THEN <<34, 105, 100, 34, 58>> \o Digits(v.id) ELSE <<>>)
         \o (IF v.id # 0 /\ v.data # "absent" THEN <<44>> ELSE <<>>)
         \o (IF v.data # "absent"
             THEN <<34, 100, 97, 116, 97, 34, 58>> \o DataText(v.data) ELSE <<>>)
         \o <<125>>                                                   \* }

HostJsonValues ==
    {JsonObj(i, d) : i \in 0..MaxId, d \in DataTokens} \cup {JsonNonObj}

HostJsonText == [v \in HostJsonValues |-> Stringify(v)]

\* json.loads on the texts the model's host can produce: the value whose text
\* it is, and a JSONDecodeError for any other text
JsonLoads(text) ==
    IF \E v \in HostJsonValues : HostJsonText[v] = text
    THEN CHOOSE v \in HostJsonValues : HostJsonText[v] = text
    ELSE JsonError

CmdTypes == {"ping", "play"}

TypeText(t) ==
    CASE t = "ping" -> <<112, 105, 110, 103>>
      [] t = "play" -> <<112, 108, 97, 121>>

Commands == [type : CmdTypes, id : Ids, data : {"null"}]

\* json.dumps(cmd, ensure_ascii=False) of {"type": .., "id": .., "data": ..}
JsonDumps(cmd) ==
    <<123, 34, 116, 121, 112, 101, 34, 58, 32, 34>> \o TypeText(cmd.type)
    \o <<34, 44, 32, 34, 105, 100, 34, 58, 32>> \o Digits(cmd.id)
    \o <<44, 32, 34, 100, 97, 116, 97, 34, 58, 32>> \o DataText(cmd.data)
    \o <<125>>

(* ------------------------------ text ---------------------------------- *)
\* the characters str.strip() removes (ASCII)
IsSpace(c) == c \in {9, 10, 11, 12, 13, 28, 29, 30, 31, 32}

\* the number of whitespace characters at the start of s
LeadSpace(s) ==
    CHOOSE k \in 0..Len(s) :
        /\ \A j \in 1..k : IsSpace(s[j])
        /\ k = Len(s) \/ ~IsSpace(s[k + 1])

\* the number of whitespace characters at the end of s
TrailSpace(s) ==
    CHOOSE k \in 0..Len(s) :
        /\ \A j \in 1..k : IsSpace(s[Len(s) + 1 - j])
        /\ k = Len(s) \/ ~IsSpace(s[Len(s) - k])

\* str.strip()
Strip(s) ==
    IF \A i \in 1..Len(s) : IsSpace(s[i]) THEN <<>>
    ELSE SubSeq(s, LeadSpace(s) + 1, Len(s) - TrailSpace(s))

\* the position of the k-th newline of s (0 before the first, Len(s)+1 after the last)
NthNewline(s, k) ==
    IF k = 0 THEN 0
    ELSE IF k > Cardinality({i \in 1..Len(s) : s[i] = 10}) THEN Len(s) + 1
    ELSE CHOOSE p \in 1..Len(s) :
            s[p] = 10 /\ Cardinality({q \in 1..(p - 1) : s[q] = 10}) = k - 1

\* str.split('\n')
SplitLines(s) ==
    [k \in 1..(Cardinality({i \in 1..Len(s) : s[i] = 10}) + 1) |->
        SubSeq(s, NthNewline(s, k - 1) + 1, NthNewline(s, k) - 1)]

(* ----------------------- the correlation channel ---------------------- *)
VARIABLES
    clock,           \* time.time(), in ticks
    outbound,        \* content of helper-to-bas.<pid>.txt, or NoFile
    inbound,         \* the lines of bas-to-helper.<pid>.txt, or Missing
    pc,              \* where the caller of the channel stands
    kind,            \* "call" (_call) or "ping"
    message_id,      \* self.message_id
    command,         \* the command of the call in progress
    timeout,         \* the timeout handed to _read_response
    start_time,      \* start_time of _read_response
    checked_lines,   \* checked_lines of _read_response (the lines, by name)
    response,        \* what _read_response returned (NoResponse: None)
    ret,             \* what _call or ping returned
    raised,          \* an exception left _read_response
    wrote,           \* what _write_command returned to the call in progress
    ncalls,          \* history: calls issued so far
    nwrites,         \* history: successful writes of the outbound file so far
    outstanding,     \* history: the ids of the earlier calls that timed out
    nstale,          \* history: the lines the inbound file held when the command
                     \* of the call in progress was written
    os_error,        \* history: the OS error the last read of the inbound file met
    content          \* the lines the pass that matched read from the inbound file
                     \* (line 242), until the call returns; Missing otherwise

chanVars == <<clock, outbound, inbound, pc, kind, message_id, command, timeout,
              start_time, checked_lines, response, ret, raised, wrote, ncalls,
              nwrites, outstanding, nstale, os_error, content>>

\* the state of one invocation of an ephemeral operation (Part 2)
VARIABLES
    op,              \* the operation invoked ("none" before the invocation)
    save_to,         \* execute_browser_js: save_to is given
    epc,             \* where the operation stands: the await it is about to make
    result,          \* result (result1, result2, result3: the latest)
    action_ids,      \* check_element: action_ids
    var_results,     \* var_result (check_element: exists_val, visible_val, count_val)
    eret,            \* what the operation returned
    handled,         \* the operation returned from its except handler
    calls,           \* history: the round trips issued, in order
    hostActions      \* the host's project: the actions that exist in it

ephVars == <<op, save_to, epc, result, action_ids, var_results, eret, handled,
             calls, hostActions>>

\* the MCP server's request loop over one client (Part 3)
VARIABLES
    srv_pc,          \* main: "readline", "run" (inside run_until_complete), "exit"
    co_pc,           \* the coroutine of call_tool_async: "idle", "step", "await"
    round_trips,     \* the _call's the running tool has still to make
    poll,            \* per command, in the order of _call: where its _read_response is
    awaited,         \* the command whose executor future the coroutine awaits (0: none)
    abandoned,       \* history: the commands whose await was given up
    nread,           \* history: the lines read from stdin
    stdout,          \* the replies printed, in order
    requests         \* history: the lines read from stdin, in order

srvVars == <<srv_pc, co_pc, round_trips, poll, awaited, abandoned, nread, stdout,
            requests>>

\* two clients in one IPC directory (Part 4)
VARIABLES
    bas_pid,         \* per client: self.bas_pid
    fs,              \* the IPC directory: per path, the file (NoSuchFile: none)
    client           \* per client: where its call stands, its id, what it matched

dirVars == <<bas_pid, fs, client>>

\* one tools/call of the MCP server, from call_tool_async on (Part 5)
VARIABLES
    tool,            \* name ("none" before the call)
    tool_args,       \* args
    tpc,             \* where the tool stands: the await it is about to make
    project,         \* delete_function: project, as get_project returned it
    ids_to_delete,   \* delete_function: ids_to_delete
    sent,            \* history: the commands the tool issued, in order
    tret,            \* what call_tool_async returned
    delete_result,   \* delete_function: result, what delete_actions returned
    deleted_count    \* the deleted_count of the value returned (0: it has none)

toolVars == <<tool, tool_args, tpc, project, ids_to_delete, sent, tret,
              delete_result, deleted_count>>

\* a message taken through the hex mapping and back (Part 6)
VARIABLES
    message,         \* the string given to _string_to_hex
    hex_once,        \* _string_to_hex(message)
    hex_twice,       \* _string_to_hex of that
    back_once,       \* _hex_to_string(hex_twice)
    back,            \* _hex_to_string of that
    cpc              \* how far the message has got

codecVars == <<message, hex_once, hex_twice, back_once, back, cpc>>

\* how long a create round trip waits for the host (Part 7)
VARIABLES
    wop,             \* the method called
    op_timeout,      \* its timeout argument (0: it has none)
    execute,         \* create_action: execute
    call_timeout,    \* the timeout create_action passes to _call
    waited,          \* seconds the round trip has waited
    wpc,
    wret             \* what create_action returned

waitVars == <<wop, op_timeout, execute, call_timeout, waited, wpc, wret>>

\* _wait_for_idle and the get_status calls of its loop (Part 8)
VARIABLES
    ipc,             \* "idle", "loop" (at the test of the while), "done"
    idle_timeout,    \* timeout
    elapsed,         \* time.time() - start, in seconds
    idle_status,     \* status, what the last get_status returned
    last_answer,     \* history: how the last get-status round trip ended
    idle_ret         \* what _wait_for_idle returned

idleVars == <<ipc, idle_timeout, elapsed, idle_status, last_answer, idle_ret>>
NoResponse == [ok |-> FALSE, isobj |-> FALSE, id |-> -1, data |-> "absent"]
NoCommand == [type |-> "none", id |-> 0, data |-> "null"]

\* (mutant) the file opened for appending
FileWrite_Append(old, text) == IF old = NoFile THEN text ELSE old \o text

\* open(path, 'w').write(text): the file holds text and nothing else
FileWrite(old, text) == text

\* BASClient._write_command under the I/O outcome io: "ok", "open_fails" (the file
\* is left as it was) or "write_fails" (the file was truncated by open)
WriteHex(old, hex_str, io) ==
    IF hex_str = Fail \/ io = "open_fails" THEN [ok |-> FALSE, file |-> old]
    ELSE IF io = "write_fails" THEN [ok |-> FALSE, file |-> <<>>]
    ELSE [ok |-> TRUE, file |-> FileWrite(old, hex_str)]

_write_command(old, cmd, io) == WriteHex(old, _string_to_hex(JsonDumps(cmd)), io)

\* (mutant) the loop gives up one tick early
PollContinues_Early(now, start, limit) == now - start + 1 < limit

\* the loop test of _read_response: time.time() - start_time < timeout
PollContinues(now, start, limit) == now - start < limit

\* bas_to_helper.exists() and read_text(encoding='ascii'), then
\* content.strip().split('\n')
ReadInbound(file) ==
    IF file = NoFile THEN [exc |-> "none", exists |-> FALSE, lines |-> <<>>]
    ELSE IF \E i \in 1..Len(file) : file[i] >= 128
         THEN [exc |-> "UnicodeDecodeError", exists |-> TRUE, lines |-> <<>>]
    ELSE [exc |-> "none", exists |-> TRUE, lines |-> SplitLines(Strip(file))]

\* (mutant) any response object is taken for the answer
IdMatches_Any(resp, expected_id) == resp.isobj

\* response.get('id') == expected_id (a response without "id" gives None)
IdMatches(resp, expected_id) == resp.id = expected_id

\* (mutant) the inner handler catches ValueError only
CaughtInner_ValueError(exc) == exc = "ValueError"

\* the inner handler, "except Exception: continue"
CaughtInner(exc) == exc \in {"ValueError", "AttributeError", "UnicodeDecodeError"}

\* the errors exists() and read_text() raise for the state of the file system: the
\* file was removed after exists() answered True, or it may not be read
OSErrors == {"FileNotFoundError", "PermissionError"}

\* (mutant) the outer handler lets the errors of the file system through
CaughtOuter_DecodeOnly(exc) ==
    exc \in {"ValueError", "AttributeError", "UnicodeDecodeError"}

\* the outer handler, "except Exception: pass" (lines 270-271)
CaughtOuter(exc) ==
    exc \in {"ValueError", "AttributeError", "UnicodeDecodeError"} \cup OSErrors

\* lines 255-259 on one line: two hex decodings, json.loads and response.get, with
\* the exception the first failing step raises
DecodeParsed(parsed) ==
    IF ~parsed.ok THEN [exc |-> "ValueError", response |-> JsonError]
    ELSE IF ~parsed.isobj THEN [exc |-> "AttributeError", response |-> parsed]
    ELSE [exc |-> "none", response |-> parsed]

DecodeJson(json_str) ==
    IF json_str = Fail THEN [exc |-> "ValueError", response |-> JsonError]
    ELSE DecodeParsed(JsonLoads(json_str))

DecodeInner(inner_hex) ==
    IF inner_hex = Fail THEN [exc |-> "ValueError", response |-> JsonError]
    ELSE DecodeJson(_hex_to_string(inner_hex))

\* (mutant) the hex mapping is inverted once
DecodeLine_Once(line) == DecodeJson(_hex_to_string(line))

DecodeLine(line) == DecodeInner(_hex_to_string(line))

ScanResult(status, checked, resp, exc) ==
    [status |-> status, checked |-> checked, response |-> resp, exc |-> exc]

\* the for loop of _read_response over the lines of one read (lines 246-268)
RECURSIVE ScanLines(_, _, _)
ScanDecoded(d, line, rest, checked, expected_id) ==
    IF d.exc = "none" /\ IdMatches(d.response, expected_id)
    THEN ScanResult("match", checked \cup {line}, d.response, "none")
    ELSE IF d.exc = "none" \/ CaughtInner(d.exc)
    THEN ScanLines(rest, checked \cup {line}, expected_id)
    ELSE ScanResult("raise", checked \cup {line}, NoResponse, d.exc)

ScanLine(line, rest, checked, expected_id) ==
    IF line = <<>> \/ line \in checked THEN ScanLines(rest, checked, expected_id)
    ELSE ScanDecoded(DecodeLine(line), line, rest, checked, expected_id)

ScanLines(lines, checked, expected_id) ==
    IF lines = <<>> THEN ScanResult("none", checked, NoResponse, "none")
    ELSE ScanLine(Strip(Head(lines)), Tail(lines), checked, expected_id)

\* what the outer handler makes of a pass
PassResult(s) ==
    IF s.status = "raise"
    THEN [status |-> IF CaughtOuter(s.exc) THEN "none" ELSE "escape",
          checked |-> s.checked, response |-> NoResponse]
    ELSE [status |-> s.status, checked |-> s.checked, response |-> s.response]

\* one iteration of the while loop of _read_response, up to the sleep or the match
PollRead(r, checked, expected_id) ==
    IF r.exc # "none" THEN PassResult(ScanResult("raise", checked, NoResponse, r.exc))
    ELSE PassResult(ScanLines(r.lines, checked, expected_id))

PollIteration(file, checked, expected_id) ==
    PollRead(ReadInbound(file), checked, expected_id)

\* response.get('data') as a Python value
PyData(d) ==
    IF d \in {"absent", "null"} THEN "None" ELSE IF d = "true" THEN "True" ELSE "False"

\* (mutant) ping answers with the truth of the response's data
ReturnValue_DataTruthy(k, resp) ==
    IF k = "ping"
    THEN (IF resp # NoResponse /\ resp.data = "true" THEN "True" ELSE "False")
    ELSE IF resp = NoResponse THEN "None" ELSE PyData(resp.data)

\* the value _call or ping makes of what _read_response returned
ReturnValue(k, resp) ==
    IF k = "ping" THEN (IF resp = NoResponse THEN "False" ELSE "True")
    ELSE IF resp = NoResponse THEN "None" ELSE PyData(resp.data)

\* the host applies the hex mapping to its payload, and the mapping is applied again
DoubleHex(text) == _string_to_hex(_string_to_hex(text))

\* What the host may put on a line of the inbound file.  The state holds the
\* lines by name; LineText gives the characters of each.
ResponseLines == [k : {"response"}, id : Ids, d : DataTokens]
Named(k) == [k |-> k, id |-> 0, d |-> "absent"]
NoiseLines == {Named("handshake"), Named("nonhex"), Named("nonascii"),
               Named("nonobject"), Named("badjson"), Named("noid")}
HostLines == ResponseLines \cup NoiseLines

\* a response line the host has written in part: the line without its end
PartialLines == [k : {"partial"}, id : Ids, d : {"true"}]

\* text[:-4]
CutShort(text) == SubSeq(text, 1, Len(text) - 4)

TextOf(x) ==
    CASE x.k = "response" -> DoubleHex(Stringify(JsonObj(x.id, x.d)))
      [] x.k = "partial" -> CutShort(DoubleHex(Stringify(JsonObj(x.id, x.d))))
      [] x.k = "handshake" -> _string_to_hex(Stringify(JsonObj(1, "true")))  \* one layer
      [] x.k = "nonhex" -> <<122, 122>>                                      \* zz
      [] x.k = "nonascii" -> <<255>>
      [] x.k = "nonobject" -> DoubleHex(<<91, 49, 93>>)                      \* [1]
      [] x.k = "badjson" -> DoubleHex(<<123, 34, 105, 100, 34, 58>>)         \* {"id":
      [] x.k = "noid" -> DoubleHex(Stringify(JsonObj(0, "true")))            \* {"data":true}

LineText == [x \in HostLines \cup PartialLines |-> TextOf(x)]

\* the inbound file when it does not exist
Missing == <<Named("missing")>>

\* the content of a file the host wrote line by line
FileText(file) ==
    IF file = Missing THEN NoFile
    ELSE Flatten([i \in 1..Len(file) |-> LineText[file[i]] \o <<10>>])

\* the lines of the given texts, by name
NamesOf(texts) == {x \in HostLines \cup PartialLines : LineText[x] \in texts}

NumLines(file) == IF file = Missing THEN 0 ELSE Len(file)

\* the command type each entry point sends
TypeOf(k) == IF k = "ping" THEN "ping" ELSE "play"

ChanInit ==
    /\ clock = 0
    /\ outbound = NoFile
    /\ inbound = Missing
    /\ pc = "idle"
    /\ kind = "call"
    /\ message_id = 0
    /\ command = NoCommand
    /\ timeout = 1
    /\ start_time = 0
    /\ checked_lines = {}
    /\ response = NoResponse
    /\ ret = "None"
    /\ raised = FALSE
    /\ wrote = FALSE
    /\ ncalls = 0
    /\ nwrites = 0
    /\ outstanding = {}
    /\ nstale = 0
    /\ os_error = "none"
    /\ content = Missing

\* (mutant) the poll is started whatever _write_command returned
CallWritten_PollsAnyway(k, w) ==
    /\ outbound' = w.file
    /\ wrote' = w.ok
    /\ pc' = "written"
    /\ nwrites' = IF w.ok THEN nwrites + 1 ELSE nwrites
    /\ ret' = IF w.ok THEN "None" ELSE IF k = "ping" THEN "False" ELSE "WriteFailed"

\* lines 288-289 (ping: 309-310): `if not self._write_command(command): return`
CallWritten(k, w) ==
    /\ outbound' = w.file
    /\ wrote' = w.ok
    /\ pc' = IF w.ok THEN "written" ELSE "done"
    /\ nwrites' = IF w.ok THEN nwrites + 1 ELSE nwrites
    /\ ret' = IF w.ok THEN "None" ELSE IF k = "ping" THEN "False" ELSE "WriteFailed"

\* _call(cmd_type) and ping() up to the hand-over to the executor: _next_id, the
\* command, _write_command, and the early return when the write failed
CallStart(k, id, limit, io) ==
    /\ pc \in {"idle", "done"}
    /\ ncalls < MaxCalls
    /\ clock + limit <= MaxClock
    /\ message_id' = id
    /\ command' = [type |-> TypeOf(k), id |-> id, data |-> "null"]
    /\ CallWritten(k, _write_command(outbound,
                        [type |-> TypeOf(k), id |-> id, data |-> "null"], io))
    /\ kind' = k
    /\ timeout' = limit
    /\ ncalls' = ncalls + 1
    /\ response' = NoResponse
    /\ checked_lines' = {}
    /\ start_time' = clock
    /\ UNCHANGED <<clock, inbound, raised>>
    /\ nstale' = NumLines(inbound)
    /\ UNCHANGED <<outstanding, os_error>>
    /\ content' = Missing
    /\ UNCHANGED <<ephVars, srvVars, dirVars, toolVars, codecVars, waitVars,
                   idleVars>>

\* _read_response starts in the worker thread: lines 235-236
ReadBegin ==
    /\ pc = "written"
    /\ start_time' = clock
    /\ checked_lines' = {}
    /\ pc' = "poll"
    /\ UNCHANGED <<clock, outbound, inbound, kind, message_id, command, timeout,
                   response, ret, raised, wrote, ncalls, nwrites>>
    /\ UNCHANGED <<outstanding, nstale, os_error, content>>
    /\ UNCHANGED <<ephVars, srvVars, dirVars, toolVars, codecVars, waitVars,
                   idleVars>>

\* one pass of the while loop (lines 238-271): read, scan, and either the match
\* (before the unlink) or the way to the sleep
PollPassTo(it) ==
    /\ checked_lines' = NamesOf(it.checked)
    /\ response' = it.response
    /\ raised' = (it.status = "escape")
    /\ pc' = CASE it.status = "match" -> "unlink"
               [] it.status = "escape" -> "done"
               [] OTHER -> "sleep"
    /\ ret' = IF it.status = "escape" THEN "Raised" ELSE ret

PollPass ==
    /\ pc = "poll"
    /\ PollContinues(clock, start_time, timeout)
    /\ PollPassTo(PollIteration(FileText(inbound),
                                {LineText[x] : x \in checked_lines}, message_id))
    /\ UNCHANGED <<clock, outbound, inbound, kind, message_id, command, timeout,
                   start_time, wrote, ncalls, nwrites>>
    /\ os_error' = "none"
    /\ content' = IF pc' = "unlink" THEN inbound ELSE Missing
    /\ UNCHANGED <<outstanding, nstale>>
    /\ UNCHANGED <<ephVars, srvVars, dirVars, toolVars, codecVars, waitVars,
                   idleVars>>

\* a pass whose exists() or read_text() raises exc (lines 240-242): no line is
\* examined, the outer handler takes the exception, the loop goes to its sleep.
\* FileNotFoundError is the file removed between exists() and read_text().
PollPassFails(exc) ==
    /\ pc = "poll"
    /\ PollContinues(clock, start_time, timeout)
    /\ exc = "FileNotFoundError" => inbound # Missing
    /\ UNCHANGED checked_lines
    /\ response' = NoResponse
    /\ raised' = ~CaughtOuter(exc)
    /\ pc' = IF CaughtOuter(exc) THEN "sleep" ELSE "done"
    /\ ret' = IF CaughtOuter(exc) THEN ret ELSE "Raised"
    /\ inbound' = IF exc = "FileNotFoundError" THEN Missing ELSE inbound
    /\ nstale' = IF exc = "FileNotFoundError" THEN 0 ELSE nstale
    /\ os_error' = exc
    /\ UNCHANGED <<clock, outbound, kind, message_id, command, timeout, start_time,
                   wrote, ncalls, nwrites, outstanding, content>>
    /\ UNCHANGED <<ephVars, srvVars, dirVars, toolVars, codecVars, waitVars,
                   idleVars>>

\* lines 260-265 and the return to _call or ping: the best-effort unlink (deleted
\* says whether it removed the file), then the value the caller returns
\* (mutant) the file is emptied, not removed
AfterUnlink_Truncate(file, deleted) == IF deleted THEN <<>> ELSE file

\* self.bas_to_helper.unlink() with its exception swallowed (lines 261-264): the
\* file is gone, or the unlink failed and the file is as it was
AfterUnlink(file, deleted) == IF deleted THEN Missing ELSE file

Unlink(deleted) ==
    /\ pc = "unlink"
    /\ inbound' = AfterUnlink(inbound, deleted)
    /\ ret' = ReturnValue(kind, response)
    /\ pc' = "done"
    /\ UNCHANGED <<clock, outbound, kind, message_id, command, timeout, start_time,
                   checked_lines, response, raised, wrote, ncalls, nwrites>>
    /\ UNCHANGED <<outstanding, nstale, os_error>>
    /\ content' = Missing
    /\ UNCHANGED <<ephVars, srvVars, dirVars, toolVars, codecVars, waitVars,
                   idleVars>>

\* time.sleep(self._poll_interval), line 273; the clock is not counted past the
\* deadline start_time + timeout, beyond which the loop test tells no times apart
Sleep ==
    /\ pc = "sleep"
    /\ clock' = IF clock < start_time + timeout THEN clock + 1 ELSE clock
    /\ pc' = "poll"
    /\ UNCHANGED <<outbound, inbound, kind, message_id, command, timeout, start_time,
                   checked_lines, response, ret, raised, wrote, ncalls, nwrites>>
    /\ os_error' = "none"
    /\ UNCHANGED <<outstanding, nstale, content>>
    /\ UNCHANGED <<ephVars, srvVars, dirVars, toolVars, codecVars, waitVars,
                   idleVars>>

\* (mutant) a call that got no response polls once more
AfterTimeout_PollAgain == "written"

\* where a call stands after the timeout of its poll (lines 296-297, ping: 316):
\* it returns
AfterTimeout == "done"

\* (mutant) the poll that times out removes the inbound file as a match does
PollTimeout_Unlinks ==
    /\ pc = "poll"
    /\ ~PollContinues(clock, start_time, timeout)
    /\ response' = NoResponse
    /\ ret' = ReturnValue(kind, NoResponse)
    /\ pc' = AfterTimeout
    /\ inbound' = Missing
    /\ UNCHANGED <<clock, outbound, kind, message_id, command, timeout,
                   start_time, checked_lines, raised, wrote, ncalls, nwrites>>
    /\ outstanding' = outstanding \cup {message_id}
    /\ UNCHANGED <<nstale, os_error, content>>
    /\ UNCHANGED <<ephVars, srvVars, dirVars, toolVars, codecVars, waitVars,
                   idleVars>>

\* the loop test fails: return None (line 275), and the caller's return
PollTimeout ==
    /\ pc = "poll"
    /\ ~PollContinues(clock, start_time, timeout)
    /\ response' = NoResponse
    /\ ret' = ReturnValue(kind, NoResponse)
    /\ pc' = AfterTimeout
    /\ UNCHANGED <<clock, outbound, inbound, kind, message_id, command, timeout,
                   start_time, checked_lines, raised, wrote, ncalls, nwrites>>
    /\ outstanding' = outstanding \cup {message_id}
    /\ UNCHANGED <<nstale, os_error, content>>
    /\ UNCHANGED <<ephVars, srvVars, dirVars, toolVars, codecVars, waitVars,
                   idleVars>>

\* time passes while the poll runs
Tick ==
    /\ pc \in {"poll", "sleep"}
    /\ clock < MaxClock
    /\ clock < start_time + timeout
    /\ clock' = clock + 1
    /\ UNCHANGED <<outbound, inbound, pc, kind, message_id, command, timeout,
                   start_time, checked_lines, response, ret, raised, wrote, ncalls,
                   nwrites>>
    /\ UNCHANGED <<outstanding, nstale, os_error, content>>
    /\ UNCHANGED <<ephVars, srvVars, dirVars, toolVars, codecVars, waitVars,
                   idleVars>>

\* the ids of the commands the host has been sent and has not been seen to answer:
\* the host's responses echo the id of such a command
SeenByHost == outstanding \cup (IF wrote THEN {message_id} ELSE {})

\* the host appends a line to the inbound file, at any time (a line no later call
\* can read is left out)
HostAppend(line) ==
    /\ NumLines(inbound) < MaxLines
    /\ line.k = "response" => line.id \in SeenByHost
    /\ pc # "done" \/ ncalls < MaxCalls
    /\ inbound' = Append(IF inbound = Missing THEN <<>> ELSE inbound, line)
    /\ UNCHANGED <<clock, outbound, pc, kind, message_id, command, timeout,
                   start_time, checked_lines, response, ret, raised, wrote, ncalls,
                   nwrites>>
    /\ UNCHANGED <<outstanding, nstale, os_error, content>>
    /\ UNCHANGED <<ephVars, srvVars, dirVars, toolVars, codecVars, waitVars,
                   idleVars>>

\* the host has written the first part of a response line: the reader sees the
\* file end in a line without its end
HostPartial(line) ==
    /\ NumLines(inbound) < MaxLines
    /\ line.id \in SeenByHost
    /\ inbound' = Append(IF inbound = Missing THEN <<>> ELSE inbound, line)
    /\ UNCHANGED <<clock, outbound, pc, kind, message_id, command, timeout,
                   start_time, checked_lines, response, ret, raised, wrote, ncalls,
                   nwrites>>
    /\ UNCHANGED <<outstanding, nstale, os_error, content>>
    /\ UNCHANGED <<ephVars, srvVars, dirVars, toolVars, codecVars, waitVars,
                   idleVars>>

\* the host writes the rest of the line
HostComplete ==
    /\ inbound # Missing /\ inbound # <<>>
    /\ inbound[Len(inbound)].k = "partial"
    /\ inbound' = [inbound EXCEPT ![Len(inbound)] =
                       [k |-> "response", id |-> @.id, d |-> @.d]]
    /\ UNCHANGED <<clock, outbound, pc, kind, message_id, command, timeout,
                   start_time, checked_lines, response, ret, raised, wrote, ncalls,
                   nwrites>>
    /\ UNCHANGED <<outstanding, nstale, os_error, content>>
    /\ UNCHANGED <<ephVars, srvVars, dirVars, toolVars, codecVars, waitVars,
                   idleVars>>

Next ==
    \/ \E k \in {"call", "ping"}, id \in Ids, limit \in 1..MaxTimeout,
          io \in {"ok", "open_fails", "write_fails"} : CallStart(k, id, limit, io)
    \/ ReadBegin
    \/ PollPass
    \/ \E exc \in OSErrors : PollPassFails(exc)
    \/ \E deleted \in BOOLEAN : Unlink(deleted)
    \/ Sleep
    \/ PollTimeout
    \/ Tick
    \/ \E line \in HostLines : HostAppend(line)

(* ---------------------- the ephemeral operations ----------------------- *)
\* action ids the host hands out are drawn from 1..MaxActionId; 0 stands for
\* "no action_id": the key absent, None or 0, which the code does not tell apart
MaxActionId == 3

\* a key that a dict does not hold
Absent == "<absent>"

\* A Python value as the operations see it: a dict ("dict"), a truthy value that
\* is no dict ("other": a string, a list, a number), a falsy value ("falsy":
\* None, False, 0, "", [], {}).  Of a dict, the keys the operations read.
PyValue(py_kind, action_id, execution_result, execution_error, ok, val, err) ==
    [kind |-> py_kind, action_id |-> action_id,
     execution_result |-> execution_result, execution_error |-> execution_error,
     success |-> ok, value |-> val, error |-> err]

PyDict(action_id, execution_result, execution_error, ok, val, err) ==
    PyValue("dict", action_id, execution_result, execution_error, ok, val, err)

PyNone == PyValue("falsy", 0, Absent, Absent, FALSE, Absent, Absent)
PyOther == PyValue("other", 0, Absent, Absent, FALSE, Absent, Absent)

\* `x or default`
Or(x, default) == IF x.kind = "falsy" THEN default ELSE x

\* What one round trip met: the outbound write failed, the poll timed out, or
\* the host answered with `data`; and what the host did with the command: the
\* action it created (made, 0: none), whether it removed the actions named.
Outcome(how, data, made, removed) ==
    [how |-> how, data |-> data, made |-> made, removed |-> removed]

\* the host's next action id (0: none left)
FreshId(existing) ==
    IF \E a \in 1..MaxActionId : a \notin existing
    THEN CHOOSE a \in 1..MaxActionId :
             a \notin existing /\ \A b \in 1..(a - 1) : b \in existing
    ELSE 0

\* the data of the host's answers to create-action (execute: true)
CreatePayloads(a) ==
    { PyDict(a, "completed", Absent, TRUE, Absent, Absent),
      PyDict(a, "failed", "boom", FALSE, Absent, Absent),
      PyDict(a, Absent, Absent, TRUE, Absent, Absent),
      PyDict(0, "failed", "boom", FALSE, Absent, Absent),
      PyOther }

CreateOutcomes(a) ==
    {Outcome("write_failed", PyNone, 0, FALSE)}
    \cup {Outcome("timeout", PyNone, m, FALSE) : m \in {0, a}}
    \cup {Outcome("answered", d, d.action_id, FALSE) : d \in CreatePayloads(a)}

\* the data of the host's answers to get-variable
VariablePayloads ==
    { PyDict(0, Absent, Absent, TRUE, "3", Absent),
      PyDict(0, Absent, Absent, TRUE, Absent, Absent),
      PyDict(0, Absent, Absent, FALSE, Absent, "no such variable"),
      PyOther }

VariableOutcomes ==
    {Outcome("write_failed", PyNone, 0, FALSE), Outcome("timeout", PyNone, 0, FALSE)}
    \cup {Outcome("answered", d, 0, FALSE) : d \in VariablePayloads}

DeleteOutcomes ==
    {Outcome("write_failed", PyNone, 0, FALSE)}
    \cup {Outcome("timeout", PyNone, 0, r) : r \in BOOLEAN}
    \cup {Outcome("answered", PyDict(0, Absent, Absent, r, Absent, Absent), 0, r) :
            r \in BOOLEAN}

\* (mutant) a failed write raises into the caller
CallRaises_OnWriteFailure(out) == out.how = "write_failed"

\* whether _call raises: _write_command and _read_response catch every Exception
\* and the matched response is a dict
CallRaises(out) == FALSE

\* what _call returns
Call(out) ==
    CASE out.how = "write_failed" ->
             PyDict(0, Absent, Absent, FALSE, Absent, "Failed to write command")
      [] out.how = "timeout" -> PyNone
      [] OTHER -> out.data

create_action(out) ==
    Or(Call(out), PyDict(0, Absent, Absent, FALSE, Absent, "No response"))

delete_actions(out) ==
    Or(Call(out), PyDict(0, Absent, Absent, FALSE, Absent, Absent))

get_variable(out) ==
    Or(Call(out), PyDict(0, Absent, Absent, FALSE, Absent, "No response"))

EphOps == {"load_page", "get_page_html_safe", "execute_browser_js",
           "take_screenshot", "check_element"}

\* the dict an operation returns: success, error (<<>>: no such key), the value
\* read back (url, html, result, screenshot_base64; Absent: no such key), and
\* check_element's exists, visible and count
Returned(ok, err, val, exists, visible, count) ==
    [success |-> ok, error |-> err, value |-> val, exists |-> exists,
     visible |-> visible, count |-> count]

Success(val) == Returned(TRUE, <<>>, val, FALSE, FALSE, 0)
Failure(err) == Returned(FALSE, err, Absent, FALSE, FALSE, 0)
NotReturned == Returned(FALSE, <<"(not returned)">>, Absent, FALSE, FALSE, 0)

\* str(e) of the AttributeError that x.get raises when x is no dict
AttributeError == <<"object has no attribute 'get'">>
\* str(e) of an exception that left a round trip
CallError == <<"error raised by the call">>

\* d.get(key, default), for a dict d
DictGet(d, key, default) == IF d[key] = Absent THEN default ELSE d[key]

\* str(x), as an f-string formats it
Str(x) == IF x = Absent THEN "None" ELSE x

\* what a variable's value is worth: bool(value), and int(value) with the
\* ValueError or TypeError caught (the values are Absent and the number 3)
Bool(val) == val # Absent
IntOr0(val) == IF val = "3" THEN 3 ELSE 0

\* (mutant) the cleanup is attempted whatever the action_id
NeedsCleanup_Always(action_id) == TRUE

\* `if action_id:`
NeedsCleanup(action_id) == action_id # 0

\* (mutant) the default in place of the host's error detail
ExecutionError_Default(res, default) == <<default>>

\* result.get("execution_error", default)
ExecutionError(res, default) == <<DictGet(res, "execution_error", default)>>

\* the host's project after it has seen (or not) the command of a round trip
HostAfter(type, ids, out) ==
    CASE type = "create-action" -> hostActions \cup ({out.made} \ {0})
      [] type = "delete-actions" /\ out.removed ->
             hostActions \ {ids[i] : i \in 1..Len(ids)}
      [] OTHER -> hostActions

\* one awaited round trip: the command issued, how it ended, and what the host
\* did with it
RoundTrip(type, ids, out, returned) ==
    /\ calls' = Append(calls, [type |-> type, ids |-> ids, how |-> out.how,
                               ok |-> returned.success,
                               execution_result |-> returned.execution_result])
    /\ hostActions' = HostAfter(type, ids, out)

Return(r, by_handler) == epc' = "returned" /\ eret' = r /\ handled' = by_handler
Goto(p) == epc' = p /\ UNCHANGED <<eret, handled>>

EphInit ==
    /\ op = "none"
    /\ save_to = FALSE
    /\ epc = "idle"
    /\ result = PyNone
    /\ action_ids = <<>>
    /\ var_results = <<>>
    /\ eret = NotReturned
    /\ handled = FALSE
    /\ calls = <<>>
    /\ hostActions = {}

\* a caller invokes one of the operations
EphStart(o, st) ==
    /\ epc = "idle"
    /\ o = "execute_browser_js" \/ ~st
    /\ op' = o
    /\ save_to' = st
    /\ epc' = "create"
    /\ UNCHANGED <<result, action_ids, var_results, eret, handled, calls,
                   hostActions>>
    /\ UNCHANGED <<chanVars, srvVars, dirVars, toolVars, codecVars, waitVars,
                   idleVars>>

\* the return statements of load_page (lines 476-483)
load_page_return(res) ==
    IF res.execution_result = "completed" THEN Success("url")
    ELSE Failure(ExecutionError(res, "Execution failed"))

load_page ==
    /\ op = "load_page"
    /\ \/ /\ epc = "create"
          /\ \E out \in CreateOutcomes(FreshId(hostActions)) :
               /\ RoundTrip("create-action", <<>>, out, create_action(out))
               /\ result' = create_action(out)
               /\ IF CallRaises(out) THEN Return(Failure(CallError), TRUE)
                  ELSE IF create_action(out).kind # "dict"
                       THEN Return(Failure(AttributeError), TRUE)
                  ELSE IF NeedsCleanup(create_action(out).action_id)
                       THEN Goto("delete")
                  ELSE Return(load_page_return(create_action(out)), FALSE)
       \/ /\ epc = "delete"
          /\ \E out \in DeleteOutcomes :
               /\ RoundTrip("delete-actions", <<result.action_id>>, out,
                            delete_actions(out))
               /\ IF CallRaises(out) THEN Return(Failure(CallError), TRUE)
                  ELSE Return(load_page_return(result), FALSE)
          /\ UNCHANGED result
    /\ UNCHANGED <<op, save_to, action_ids, var_results>>
    /\ UNCHANGED <<chanVars, srvVars, dirVars, toolVars, codecVars, waitVars,
                   idleVars>>

\* what follows the create-and-execute in get_page_html_safe, execute_browser_js
\* and take_screenshot: result.get raising, the failure path, or the read
AfterCreate(res, raises, reads, default) ==
    IF raises THEN Return(Failure(CallError), TRUE)
    ELSE IF res.kind # "dict" THEN Return(Failure(AttributeError), TRUE)
    ELSE IF res.execution_result = "completed" /\ reads THEN Goto("get_variable")
    ELSE IF NeedsCleanup(res.action_id) THEN Goto("delete")
    ELSE IF res.execution_result = "completed" THEN Return(Success(Absent), FALSE)
    ELSE Return(Failure(ExecutionError(res, default)), FALSE)

\* the return statements of get_page_html_safe (lines 519-535); var_result.get
\* raises when var_result is no dict
get_page_html_safe_return(res, vs) ==
    IF res.execution_result # "completed"
    THEN Failure(ExecutionError(res, "Execution failed"))
    ELSE IF vs[1].kind # "dict" THEN Failure(AttributeError)
    ELSE IF ~vs[1].success
         THEN Failure(<<"Failed to get variable: ", Str(vs[1].error)>>)
    ELSE Success(DictGet(vs[1], "value", ""))

\* whether an operation's return statements ended in its except handler
ReadRaised(res, vs) ==
    res.execution_result = "completed" /\ vs # <<>> /\ vs[1].kind # "dict"

get_page_html_safe ==
    /\ op = "get_page_html_safe"
    /\ \/ /\ epc = "create"
          /\ \E out \in CreateOutcomes(FreshId(hostActions)) :
               /\ RoundTrip("create-action", <<>>, out, create_action(out))
               /\ result' = create_action(out)
               /\ AfterCreate(create_action(out), CallRaises(out), TRUE,
                              "Execution failed")
          /\ UNCHANGED var_results
       \/ /\ epc = "get_variable"
          /\ \E out \in VariableOutcomes :
               /\ RoundTrip("get-variable", <<>>, out, get_variable(out))
               /\ var_results' = <<get_variable(out)>>
               /\ IF CallRaises(out) THEN Return(Failure(CallError), TRUE)
                  ELSE IF NeedsCleanup(result.action_id) THEN Goto("delete")
                  ELSE Return(get_page_html_safe_return(result,
                                                       <<get_variable(out)>>),
                              ReadRaised(result, <<get_variable(out)>>))
          /\ UNCHANGED result
       \/ /\ epc = "delete"
          /\ \E out \in DeleteOutcomes :
               /\ RoundTrip("delete-actions", <<result.action_id>>, out,
                            delete_actions(out))
               /\ IF CallRaises(out) THEN Return(Failure(CallError), TRUE)
                  ELSE Return(get_page_html_safe_return(result, var_results),
                              ReadRaised(result, var_results))
          /\ UNCHANGED <<result, var_results>>
    /\ UNCHANGED <<op, save_to, action_ids>>
    /\ UNCHANGED <<chanVars, srvVars, dirVars, toolVars, codecVars, waitVars,
                   idleVars>>

\* the return statements of take_screenshot (lines 883-902)
take_screenshot_return(res, vs) ==
    IF res.execution_result # "completed"
    THEN Failure(ExecutionError(res, "Screenshot failed"))
    ELSE IF vs[1].kind # "dict" THEN Failure(AttributeError)
    ELSE IF ~vs[1].success
         THEN Failure(<<"Failed to get screenshot: ", Str(vs[1].error)>>)
    ELSE Success(DictGet(vs[1], "value", ""))

take_screenshot ==
    /\ op = "take_screenshot"
    /\ \/ /\ epc = "create"
          /\ \E out \in CreateOutcomes(FreshId(hostActions)) :
               /\ RoundTrip("create-action", <<>>, out, create_action(out))
               /\ result' = create_action(out)
               /\ AfterCreate(create_action(out), CallRaises(out), TRUE,
                              "Screenshot failed")
          /\ UNCHANGED var_results
       \/ /\ epc = "get_variable"
          /\ \E out \in VariableOutcomes :
               /\ RoundTrip("get-variable", <<>>, out, get_variable(out))
               /\ var_results' = <<get_variable(out)>>
               /\ IF CallRaises(out) THEN Return(Failure(CallError), TRUE)
                  ELSE IF NeedsCleanup(result.action_id) THEN Goto("delete")
                  ELSE Return(take_screenshot_return(result, <<get_variable(out)>>),
                              ReadRaised(result, <<get_variable(out)>>))
          /\ UNCHANGED result
       \/ /\ epc = "delete"
          /\ \E out \in DeleteOutcomes :
               /\ RoundTrip("delete-actions", <<result.action_id>>, out,
                            delete_actions(out))
               /\ IF CallRaises(out) THEN Return(Failure(CallError), TRUE)
                  ELSE Return(take_screenshot_return(result, var_results),
                              ReadRaised(result, var_results))
          /\ UNCHANGED <<result, var_results>>
    /\ UNCHANGED <<op, save_to, action_ids>>
    /\ UNCHANGED <<chanVars, srvVars, dirVars, toolVars, codecVars, waitVars,
                   idleVars>>

\* the return statements of execute_browser_js (lines 569-591)
execute_browser_js_return(res, st, vs) ==
    IF res.execution_result # "completed"
    THEN Failure(ExecutionError(res, "Execution failed"))
    ELSE IF ~st THEN Success(Absent)
    ELSE IF vs[1].success THEN Success(DictGet(vs[1], "value", "None"))
    ELSE Failure(<<"Failed to get result: ", Str(vs[1].error)>>)

execute_browser_js ==
    /\ op = "execute_browser_js"
    /\ \/ /\ epc = "create"
          /\ \E out \in CreateOutcomes(FreshId(hostActions)) :
               /\ RoundTrip("create-action", <<>>, out, create_action(out))
               /\ result' = create_action(out)
               /\ AfterCreate(create_action(out), CallRaises(out), save_to,
                              "Execution failed")
          /\ UNCHANGED var_results
       \/ /\ epc = "get_variable"
          /\ \E out \in VariableOutcomes :
               /\ RoundTrip("get-variable", <<>>, out, get_variable(out))
               /\ var_results' = <<get_variable(out)>>
               /\ IF CallRaises(out) THEN Return(Failure(CallError), TRUE)
                  ELSE IF get_variable(out).kind # "dict"
                       THEN Return(Failure(AttributeError), TRUE)
                  ELSE IF NeedsCleanup(result.action_id) THEN Goto("delete")
                  ELSE Return(execute_browser_js_return(result, save_to,
                                                       <<get_variable(out)>>),
                              FALSE)
          /\ UNCHANGED result
       \/ /\ epc = "delete"
          /\ \E out \in DeleteOutcomes :
               /\ RoundTrip("delete-actions", <<result.action_id>>, out,
                            delete_actions(out))
               /\ IF CallRaises(out) THEN Return(Failure(CallError), TRUE)
                  ELSE Return(execute_browser_js_return(result, save_to,
                                                       var_results), FALSE)
          /\ UNCHANGED <<result, var_results>>
    /\ UNCHANGED <<op, save_to, action_ids>>
    /\ UNCHANGED <<chanVars, srvVars, dirVars, toolVars, codecVars, waitVars,
                   idleVars>>

\* the create-action round trips issued so far
Creates == Cardinality({i \in 1..Len(calls) : calls[i].type = "create-action"})

\* check_element: the results parsed (lines 977-992)
check_element_return(vs) ==
    Returned(TRUE, <<>>, Absent,
             IF vs[1].success THEN Bool(vs[1].value) ELSE FALSE,
             IF vs[2].success THEN Bool(vs[2].value) ELSE FALSE,
             IF vs[3].success THEN IntOr0(vs[3].value) ELSE 0)

\* exists_val.get, visible_val.get or count_val.get raises
ParseRaises(vs) == \E i \in 1..Len(vs) : vs[i].kind # "dict"

\* check_element from the parse on (lines 976-1001), the cleanup of line 974
\* done or skipped: the return, or the way into the handler's delete
check_element_parse(vs, ids) ==
    IF ~ParseRaises(vs) THEN Return(check_element_return(vs), FALSE)
    ELSE IF ids # <<>> THEN Goto("except_delete")
    ELSE Return(Failure(AttributeError), TRUE)

check_element ==
    /\ op = "check_element"
    /\ \/ /\ epc = "create"
          /\ \E out \in CreateOutcomes(FreshId(hostActions)) :
               /\ RoundTrip("create-action", <<>>, out, create_action(out))
               /\ result' = create_action(out)
               /\ action_ids' =
                    IF create_action(out).kind = "dict"
                       /\ NeedsCleanup(create_action(out).action_id)
                    THEN Append(action_ids, create_action(out).action_id)
                    ELSE action_ids
               /\ IF CallRaises(out) \/ create_action(out).kind # "dict"
                  THEN IF action_ids # <<>> THEN Goto("except_delete")
                       ELSE Return(Failure(AttributeError), TRUE)
                  ELSE IF Creates = 2 THEN Goto("get_variable")
                  ELSE Goto("create")
          /\ UNCHANGED var_results
       \/ /\ epc = "get_variable"
          /\ \E out \in VariableOutcomes :
               /\ RoundTrip("get-variable", <<>>, out, get_variable(out))
               /\ var_results' = Append(var_results, get_variable(out))
               /\ IF CallRaises(out)
                  THEN IF action_ids # <<>> THEN Goto("except_delete")
                       ELSE Return(Failure(CallError), TRUE)
                  ELSE IF Len(var_results) < 2 THEN Goto("get_variable")
                  ELSE IF action_ids # <<>> THEN Goto("delete")
                  ELSE check_element_parse(Append(var_results, get_variable(out)),
                                           action_ids)
          /\ UNCHANGED <<result, action_ids>>
       \/ /\ epc = "delete"
          /\ \E out \in DeleteOutcomes :
               /\ RoundTrip("delete-actions", action_ids, out, delete_actions(out))
               /\ IF CallRaises(out) THEN Goto("except_delete")
                  ELSE check_element_parse(var_results, action_ids)
          /\ UNCHANGED <<result, action_ids, var_results>>
       \/ /\ epc = "except_delete"
          /\ \E out \in DeleteOutcomes :
               /\ RoundTrip("delete-actions", action_ids, out, delete_actions(out))
               /\ Return(Failure(AttributeError), TRUE)
          /\ UNCHANGED <<result, action_ids, var_results>>
    /\ UNCHANGED <<op, save_to>>
    /\ UNCHANGED <<chanVars, srvVars, dirVars, toolVars, codecVars, waitVars,
                   idleVars>>

NextEph ==
    \/ \E o \in EphOps, st \in BOOLEAN : EphStart(o, st)
    \/ load_page
    \/ get_page_html_safe
    \/ execute_browser_js
    \/ take_screenshot
    \/ check_element


(* --------------------- the MCP server's request loop -------------------- *)
MaxRequests == 3
MaxTrips == 2
MaxSent == 4

\* the lines stdin can deliver: end of file, a blank line, text that is no JSON,
\* JSON that is no object, and requests by method (tools/call with the number of
\* round trips its tool makes; "badparams" is a tools/call whose params is not
\* an object).  hasid: the request has an "id" member; a notification has none.
StdinLines ==
    [k : {"eof", "blank", "badjson", "nonobject", "notifications/initialized"},
     trips : {0}, hasid : {FALSE}]
    \cup [k : {"initialize", "tools/list", "badparams"}, trips : {0}, hasid : {TRUE}]
    \cup [k : {"unknown"}, trips : {0}, hasid : BOOLEAN]
    \cup [k : {"tools/call"}, trips : 0..MaxTrips, hasid : {TRUE}]

\* what main prints for a line that is not a tools/call: handle_request's reply,
\* or the reply of one of main's two handlers (params.get raises for params that
\* is not an object, line 2097, as request.get does for a request that is none)
handle_request(line) ==
    CASE line.k \in {"blank", "notifications/initialized"} -> "none"
      [] line.k = "badjson" -> "parse_error"
      [] line.k \in {"nonobject", "badparams"} -> "internal_error"
      [] line.k \in {"initialize", "tools/list"} -> "result"
      [] OTHER -> "method_not_found"

\* req_id = request.get("id") (line 2069) for the n-th line read: requests are
\* numbered as they are sent (the server copies the id and never looks at it);
\* 0 is None, for a request without the member
req_id(line, n) == IF line.hasid THEN n ELSE 0

\* the "id" of the reply printed for the n-th line: req_id in handle_request's
\* replies, None in those of main's two handlers (lines 2190 and 2200)
ReplyId(line, n) ==
    IF handle_request(line) \in {"parse_error", "internal_error"} THEN 0
    ELSE req_id(line, n)

\* print(json.dumps(response), flush=True) `if response is not None`; each printed
\* line is recorded with the input line it was printed for
Printed(out, reply, id, n) ==
    IF reply = "none" THEN out ELSE Append(out, [reply |-> reply, id |-> id, line |-> n])

\* the commands written whose _read_response has not returned
InFlight == {i \in 1..Len(poll) : poll[i] \in {"queued", "running"}}

SrvInit ==
    /\ srv_pc = "readline"
    /\ co_pc = "idle"
    /\ round_trips = 0
    /\ poll = <<>>
    /\ awaited = 0
    /\ abandoned = {}
    /\ nread = 0
    /\ stdout = <<>>
    /\ requests = <<>>

\* one turn of main's while loop: readline, json.loads, handle_request up to
\* call_tool's run_until_complete, or to the reply
main_readline(line) ==
    /\ srv_pc = "readline"
    /\ nread < MaxRequests
    /\ nread' = nread + 1
    /\ srv_pc' = CASE line.k = "eof" -> "exit"
                   [] line.k = "tools/call" -> "run"
                   [] OTHER -> "readline"
    /\ co_pc' = IF line.k = "tools/call" THEN "step" ELSE co_pc
    /\ round_trips' = IF line.k = "tools/call" THEN line.trips ELSE round_trips
    /\ stdout' = IF line.k \in {"eof", "tools/call"} THEN stdout
                 ELSE Printed(stdout, handle_request(line),
                              ReplyId(line, nread + 1), nread + 1)
    /\ requests' = Append(requests, [k |-> line.k, hasid |-> line.hasid])
    /\ UNCHANGED <<poll, awaited, abandoned>>
    /\ UNCHANGED <<chanVars, ephVars, dirVars, toolVars, codecVars, waitVars,
                   idleVars>>

\* the tool goes on to its next round trip, or returns early
TripsAfter(n) == {0, n - 1}

\* _call up to its await: _write_command, then the early return or
\* run_in_executor(None, self._read_response, ...)
call_write(ok, left) ==
    /\ co_pc = "step"
    /\ round_trips > 0
    /\ Len(poll) < MaxSent
    /\ left \in TripsAfter(round_trips)
    /\ poll' = Append(poll, IF ok THEN "queued" ELSE "unwritten")
    /\ awaited' = IF ok THEN Len(poll) + 1 ELSE 0
    /\ co_pc' = IF ok THEN "await" ELSE "step"
    /\ round_trips' = IF ok THEN round_trips ELSE left
    /\ UNCHANGED <<srv_pc, abandoned, nread, stdout, requests>>
    /\ UNCHANGED <<chanVars, ephVars, dirVars, toolVars, codecVars, waitVars,
                   idleVars>>

\* a thread of the executor takes the work item and enters _read_response
worker_start(i) ==
    /\ i \in 1..Len(poll)
    /\ poll[i] = "queued"
    /\ poll' = [poll EXCEPT ![i] = "running"]
    /\ UNCHANGED <<srv_pc, co_pc, round_trips, awaited, abandoned, nread, stdout,
                   requests>>
    /\ UNCHANGED <<chanVars, ephVars, dirVars, toolVars, codecVars, waitVars,
                   idleVars>>

\* _read_response returns in its thread: the match (line 265) or None (line 275)
worker_done(i, outcome) ==
    /\ i \in 1..Len(poll)
    /\ poll[i] = "running"
    /\ poll' = [poll EXCEPT ![i] = outcome]
    /\ UNCHANGED <<srv_pc, co_pc, round_trips, awaited, abandoned, nread, stdout,
                   requests>>
    /\ UNCHANGED <<chanVars, ephVars, dirVars, toolVars, codecVars, waitVars,
                   idleVars>>

\* (mutant) the coroutine goes on without the result of the future
AwaitReady_NoWait(st) == TRUE

\* `response = await loop.run_in_executor(...)`: the coroutine is resumed when
\* the future is done
AwaitReady(st) == st \in {"match", "timeout"}

\* _call after its await, back in the tool
call_resume(left) ==
    /\ co_pc = "await"
    /\ AwaitReady(poll[awaited])
    /\ left \in TripsAfter(round_trips)
    /\ co_pc' = "step"
    /\ round_trips' = left
    /\ awaited' = 0
    /\ UNCHANGED <<srv_pc, poll, abandoned, nread, stdout, requests>>
    /\ UNCHANGED <<chanVars, ephVars, dirVars, toolVars, codecVars, waitVars,
                   idleVars>>

\* call_tool_async returns, run_until_complete returns, handle_request builds the
\* reply and main prints it
call_tool ==
    /\ srv_pc = "run"
    /\ co_pc = "step"
    /\ round_trips = 0 \/ Len(poll) = MaxSent
    /\ stdout' = Printed(stdout, "tool_result", req_id(requests[nread], nread), nread)
    /\ UNCHANGED requests
    /\ srv_pc' = "readline"
    /\ co_pc' = "idle"
    /\ round_trips' = 0
    /\ UNCHANGED <<poll, awaited, abandoned, nread>>
    /\ UNCHANGED <<chanVars, ephVars, dirVars, toolVars, codecVars, waitVars,
                   idleVars>>

NextServer ==
    \/ \E line \in StdinLines : main_readline(line)
    \/ \E ok \in BOOLEAN, left \in 0..MaxTrips : call_write(ok, left)
    \/ \E i \in 1..MaxSent : worker_start(i)
    \/ \E i \in 1..MaxSent, outcome \in {"match", "timeout"} : worker_done(i, outcome)
    \/ \E left \in 0..MaxTrips : call_resume(left)
    \/ call_tool

\* (mutant) giving up the await stops the poll
AfterAbandon_Stops(p, i) == [p EXCEPT ![i] = "cancelled"]

\* the await of _call is cancelled: the executor's future is cancelled with it,
\* which removes a work item no thread has taken and has no effect on a
\* _read_response that runs
AfterAbandon(p, i) == IF p[i] = "queued" THEN [p EXCEPT ![i] = "cancelled"] ELSE p

\* a caller with a time limit of its own gives up the awaited _call and goes on
Abandon(left) ==
    /\ co_pc = "await"
    /\ poll[awaited] \in {"queued", "running"}
    /\ left \in TripsAfter(round_trips)
    /\ poll' = AfterAbandon(poll, awaited)
    /\ abandoned' = abandoned \cup {awaited}
    /\ awaited' = 0
    /\ co_pc' = "step"
    /\ round_trips' = left
    /\ UNCHANGED <<srv_pc, nread, stdout, requests>>
    /\ UNCHANGED <<chanVars, ephVars, dirVars, toolVars, codecVars, waitVars,
                   idleVars>>

NextAbandon ==
    \/ \E line \in StdinLines : main_readline(line)
    \/ \E ok \in BOOLEAN, left \in 0..MaxTrips : call_write(ok, left)
    \/ \E i \in 1..MaxSent : worker_start(i)
    \/ \E i \in 1..MaxSent, outcome \in {"match", "timeout"} : worker_done(i, outcome)
    \/ \E left \in 0..MaxTrips : call_resume(left)
    \/ call_tool
    \/ \E left \in 0..MaxTrips : Abandon(left)


(* --------------------- two clients in one directory --------------------- *)
MaxPid == 11

\* process ids whose decimal texts are prefixes of one another
DirPids == {1, 10, MaxPid}

Clients == {1, 2}

\* a file of the directory: whether it exists, and its lines
NoSuchFile == [exists |-> FALSE, lines |-> <<>>]

FileOf(lines) == [exists |-> TRUE, lines |-> lines]

\* no client has been constructed for the slot
NoPid == 0

\* (mutant) the file name does not carry the process id
IpcPath_NoPid(prefix, pid) == prefix \o <<46, 116, 120, 116>>

\* f"helper-to-bas.{bas_pid}.txt" and f"bas-to-helper.{bas_pid}.txt", in ipc_dir
IpcPath(prefix, pid) == prefix \o <<46>> \o Digits(pid) \o <<46, 116, 120, 116>>

helper_to_bas(pid) ==
    IpcPath(<<104, 101, 108, 112, 101, 114, 45, 116, 111, 45, 98, 97, 115>>, pid)

bas_to_helper(pid) ==
    IpcPath(<<98, 97, 115, 45, 116, 111, 45, 104, 101, 108, 112, 101, 114>>, pid)

DirPaths == {helper_to_bas(p) : p \in DirPids} \cup {bas_to_helper(p) : p \in DirPids}

NoMatch == [id |-> 0, host |-> 0]

DirInit ==
    /\ bas_pid = [c \in Clients |-> NoPid]
    /\ fs = [path \in DirPaths |-> NoSuchFile]
    /\ client = [c \in Clients |-> [pc |-> "idle", id |-> 0, response |-> NoMatch,
                                    ncalls |-> 0]]

\* BASClient(pid, ipc_dir) for each of the two clients, with distinct pids
dir_new(pids) ==
    /\ bas_pid = [c \in Clients |-> NoPid]
    /\ pids[1] # pids[2]
    /\ bas_pid' = pids
    /\ UNCHANGED <<fs, client>>
    /\ UNCHANGED <<chanVars, ephVars, srvVars, toolVars, codecVars, waitVars,
                   idleVars>>

\* _call up to the poll: the command overwrites the client's outbound file
dir_call(c, id) ==
    /\ bas_pid[c] # NoPid
    /\ client[c].pc \in {"idle", "done"}
    /\ client[c].ncalls < MaxCalls
    /\ fs' = [fs EXCEPT ![helper_to_bas(bas_pid[c])] =
                 FileOf(<<[id |-> id, host |-> 0]>>)]
    /\ client' = [client EXCEPT ![c] = [pc |-> "poll", id |-> id, response |-> NoMatch,
                                        ncalls |-> @.ncalls + 1]]
    /\ UNCHANGED bas_pid
    /\ UNCHANGED <<chanVars, ephVars, srvVars, toolVars, codecVars, waitVars,
                   idleVars>>

\* the host process pid answers the command its outbound file holds: it appends
\* a response with the command's id to its inbound file
dir_host(pid) ==
    /\ pid # NoPid
    /\ fs[helper_to_bas(pid)].exists
    /\ Len(fs[bas_to_helper(pid)].lines) < MaxLines
    /\ fs' = [fs EXCEPT ![bas_to_helper(pid)] =
                 FileOf(Append(@.lines, [id |-> fs[helper_to_bas(pid)].lines[1].id,
                                         host |-> pid]))]
    /\ UNCHANGED <<bas_pid, client>>
    /\ UNCHANGED <<chanVars, ephVars, srvVars, toolVars, codecVars, waitVars,
                   idleVars>>

\* the first line of the file that carries the id
FirstWithId(file, id) ==
    file.lines[CHOOSE i \in 1..Len(file.lines) :
                  file.lines[i].id = id /\ \A j \in 1..(i - 1) : file.lines[j].id # id]

HasId(file, id) == \E i \in 1..Len(file.lines) : file.lines[i].id = id

\* a pass of _read_response that matches: the response is returned and the
\* client's inbound file unlinked
dir_match(c) ==
    /\ client[c].pc = "poll"
    /\ HasId(fs[bas_to_helper(bas_pid[c])], client[c].id)
    /\ client' = [client EXCEPT ![c].pc = "done",
                     ![c].response = FirstWithId(fs[bas_to_helper(bas_pid[c])],
                                                 client[c].id)]
    /\ fs' = [fs EXCEPT ![bas_to_helper(bas_pid[c])] = NoSuchFile]
    /\ UNCHANGED bas_pid
    /\ UNCHANGED <<chanVars, ephVars, srvVars, toolVars, codecVars, waitVars,
                   idleVars>>

\* the poll of _read_response runs out of time with no line of its id in the file
dir_timeout(c) ==
    /\ client[c].pc = "poll"
    /\ ~HasId(fs[bas_to_helper(bas_pid[c])], client[c].id)
    /\ client' = [client EXCEPT ![c].pc = "done"]
    /\ UNCHANGED <<bas_pid, fs>>
    /\ UNCHANGED <<chanVars, ephVars, srvVars, toolVars, codecVars, waitVars,
                   idleVars>>

NextDir ==
    \/ \E pids \in [Clients -> DirPids] : dir_new(pids)
    \/ \E c \in Clients, id \in Ids : dir_call(c, id)
    \/ \E c \in Clients : dir_host(bas_pid[c])
    \/ \E c \in Clients : dir_match(c)
    \/ \E c \in Clients : dir_timeout(c)


(* ------------------------ the tools of the server ----------------------- *)
\* strings are sequences of code points
StartsWith(str, prefix) ==
    Len(str) >= Len(prefix) /\ SubSeq(str, 1, Len(prefix)) = prefix

EndsWith(str, suffix) ==
    Len(str) >= Len(suffix) /\ SubSeq(str, Len(str) - Len(suffix) + 1, Len(str)) = suffix

Contains(str, sub) ==
    \E i \in 1..(Len(str) - Len(sub) + 1) : SubSeq(str, i, i + Len(sub) - 1) = sub

\* str[n:]
From(str, n) == SubSeq(str, n + 1, Len(str))

\* str.replace(old, new): every occurrence, from the left, without overlap
RECURSIVE Replace(_, _, _)
Replace(str, old, new) ==
    IF str = <<>> THEN <<>>
    ELSE IF StartsWith(str, old) THEN new \o Replace(From(str, Len(old)), old, new)
    ELSE <<Head(str)>> \o Replace(Tail(str), old, new)

\* str.lower() (ASCII letters)
Lower(str) == [i \in 1..Len(str) |-> IF str[i] >= 65 /\ str[i] <= 90 THEN str[i] + 32
                                      ELSE str[i]]

VAR_ == <<86, 65, 82, 95>>
Open == <<91, 91>>
Close == <<93, 93>>

SAVE_PARAMS ==
    {<<115, 97, 118, 101>>,
     <<115, 97, 118, 101, 117, 114, 108>>,
     <<118, 97, 114, 105, 97, 98, 108, 101>>,
     <<115, 101, 116, 118, 97, 114, 105, 97, 98, 108, 101, 110, 97, 109, 101>>,
     <<115, 97, 118, 101, 108, 105, 115, 116>>,
     <<115, 97, 118, 101, 114, 101, 115, 117, 108, 116>>,
     <<115, 97, 118, 101, 118, 97, 108, 117, 101>>,
     <<115, 97, 118, 101, 116, 111>>}

VALUE_PARAMS ==
    {<<115, 101, 116, 118, 97, 114, 105, 97, 98, 108, 101, 118, 97, 108, 117, 101>>,
     <<118, 97, 108, 117, 101>>,
     <<118, 97, 108, 117, 101, 49>>,
     <<118, 97, 108, 117, 101, 50>>,
     <<118, 97, 108, 117, 101, 51>>,
     <<116, 121, 112, 101, 100, 97, 116, 97>>,
     <<99, 111, 100, 101>>,
     <<101, 120, 112, 114, 101, 115, 115, 105, 111, 110>>,
     <<116, 101, 120, 116>>,
     <<100, 97, 116, 97>>,
     <<108, 111, 97, 100, 117, 114, 108>>,
     <<117, 114, 108>>}

is_save_param(key_lower) ==
    \/ key_lower \in SAVE_PARAMS
    \/ StartsWith(key_lower, <<115, 97, 118, 101>>)
    \/ EndsWith(key_lower, <<110, 97, 109, 101>>) /\ Contains(key_lower, <<118, 97, 114, 105, 97, 98, 108, 101>>)

is_value_param(key_lower) ==
    \/ key_lower \in VALUE_PARAMS
    \/ StartsWith(key_lower, <<118, 97, 108, 117, 101>>)
    \/ EndsWith(key_lower, <<118, 97, 108, 117, 101>>)
    \/ EndsWith(key_lower, <<100, 97, 116, 97>>)

\* the three steps of the save branch (lines 1773-1780)
StripVar(text) == IF StartsWith(text, VAR_) THEN From(text, 4) ELSE text

StripBrackets(text) ==
    IF StartsWith(text, Open) /\ EndsWith(text, Close)
    THEN SubSeq(text, 3, Len(text) - 2) ELSE text

\* the value normalize_variable_params gives a string value under a key
NormalizedText(key_lower, text) ==
    IF is_save_param(key_lower) THEN StripVar(StripBrackets(StripVar(text)))
    ELSE IF is_value_param(key_lower)
    THEN IF StartsWith(text, VAR_) THEN Open \o From(text, 4) \o Close
         ELSE IF Contains(text, Open \o VAR_) THEN Replace(text, Open \o VAR_, Open)
         ELSE text
    ELSE StripVar(text)

\* params: a dict of one key, or the empty dict; a value is a string (str, with
\* its text) or something else
NoParams == [key |-> <<>>, str |-> FALSE, text |-> <<>>]

normalize_variable_params(params) ==
    IF params = NoParams \/ ~params.str THEN params
    ELSE [params EXCEPT !.text = NormalizedText(Lower(params.key), params.text)]

\* the keys and the values the caller may pass
ParamKeys ==
    {<<83, 97, 118, 101>>,
     <<86, 97, 114, 105, 97, 98, 108, 101>>,
     <<83, 101, 116, 86, 97, 114, 105, 97, 98, 108, 101, 78, 97, 109, 101>>,
     <<86, 97, 108, 117, 101, 49>>,
     <<67, 111, 100, 101>>,
     <<83, 101, 116, 86, 97, 114, 105, 97, 98, 108, 101, 86, 97, 108, 117, 101>>,
     <<80, 65, 84, 72>>}

MaxParts == 4

ValuePieces == {VAR_, Open, Close, <<88>>}

RECURSIVE TextsOf(_)
TextsOf(n) ==
    IF n = 0 THEN {<<>>}
    ELSE TextsOf(n - 1) \cup {t \o piece : t \in TextsOf(n - 1), piece \in ValuePieces}

ParamValues == TextsOf(MaxParts)

ParamDicts ==
    {NoParams}
    \cup {[key |-> k, str |-> TRUE, text |-> t] : k \in ParamKeys, t \in ParamValues}
    \cup {[key |-> k, str |-> FALSE, text |-> <<>>] : k \in ParamKeys}

\* the host's project: functions are the section_insert actions, named by their
\* comment; 0 stands for "no id", None for an argument that is not given
None == "<None>"

ProjectAction(id, type, comment, parent_id) ==
    [id |-> id, type |-> type, comment |-> comment, parent_id |-> parent_id]

MainFunction == ProjectAction(1, "section_insert", "OnApplicationStart", 0)
MainChild == ProjectAction(2, "load", "", 1)
OtherFunction == ProjectAction(3, "section_insert", "F", 0)
OtherChild == ProjectAction(4, "if", "", 3)
\* an action nested in the if: its parent_id is the id of the if ("Parent action
\* ID for nested actions like if/loop", bas_mcp_server.py line 1081)
NestedChild == ProjectAction(5, "load", "", 4)

Projects ==
    {<<>>, <<OtherFunction, OtherChild>>,
     <<OtherFunction, OtherChild, NestedChild>>,
     <<MainFunction, MainChild, OtherFunction, OtherChild>>,
     <<OtherFunction, OtherChild, MainFunction, MainChild>>}

FunctionNames == {None, "OnApplicationStart", "F", "G"}
FunctionIds == {0, 1, 3, 4}

NoArgs == [name |-> None, function_id |-> 0, params |-> NoParams]

Command(type, ids, params) == [type |-> type, ids |-> ids, params |-> params]

ToolInit ==
    /\ tool = "none"
    /\ tool_args = NoArgs
    /\ tpc = "idle"
    /\ project = <<>>
    /\ ids_to_delete = <<>>
    /\ sent = <<>>
    /\ tret = "none"
    /\ delete_result = "none"
    /\ deleted_count = 0

\* call_tool_async, name == "bas_delete_function" (lines 1923-1928): the guard on
\* the name, then _client.delete_function(func_name, func_id)
bas_delete_function(name, function_id) ==
    /\ tpc = "idle"
    /\ tool' = "bas_delete_function"
    /\ tool_args' = [name |-> name, function_id |-> function_id, params |-> NoParams]
    /\ IF name = "OnApplicationStart"
       THEN tpc' = "done" /\ tret' = "Cannot delete OnApplicationStart function"
       ELSE tpc' = "get_project" /\ tret' = tret
    /\ UNCHANGED <<project, ids_to_delete, sent, delete_result, deleted_count>>
    /\ UNCHANGED <<chanVars, ephVars, srvVars, dirVars, codecVars, waitVars,
                   idleVars>>

\* the loop that finds the function (lines 776-784): the index of the first
\* action that is a function with the id or with the name (0: none)
Matches(action, function_name, function_id) ==
    /\ action.type = "section_insert"
    /\ \/ function_id # 0 /\ action.id = function_id
       \/ function_name # None /\ action.comment = function_name

FindFunction(proj, function_name, function_id) ==
    IF \E i \in 1..Len(proj) : Matches(proj[i], function_name, function_id)
    THEN CHOOSE i \in 1..Len(proj) :
             /\ Matches(proj[i], function_name, function_id)
             /\ \A j \in 1..(i - 1) : ~Matches(proj[j], function_name, function_id)
    ELSE 0

\* ids_to_delete (lines 789-796): the function, then the actions inside it
Children(proj, func_id) == SelectSeq(proj, LAMBDA a : a.parent_id = func_id)

IdsToDelete(proj, func_id) ==
    <<func_id>> \o [i \in 1..Len(Children(proj, func_id)) |-> Children(proj, func_id)[i].id]

\* delete_function up to its delete: get_project (how: the round trip timed out,
\* its write failed, or the host answered with proj), the search, ids_to_delete
delete_function_find(how, proj) ==
    /\ tpc = "get_project"
    /\ sent' = Append(sent, Command("get-project", <<>>, NoParams))
    /\ project' = IF how = "answered" THEN proj ELSE <<>>
    /\ IF how = "write_failed"
       THEN /\ tpc' = "done" /\ tret' = "'str' object has no attribute 'get'"
            /\ UNCHANGED ids_to_delete
       ELSE IF how = "timeout" \/ proj = <<>>
       THEN /\ tpc' = "done" /\ tret' = "Failed to get project"
            /\ UNCHANGED ids_to_delete
       ELSE IF FindFunction(proj, tool_args.name, tool_args.function_id) = 0
       THEN /\ tpc' = "done" /\ tret' = "Function not found"
            /\ UNCHANGED ids_to_delete
       ELSE /\ tpc' = "delete"
            /\ ids_to_delete' =
                 IdsToDelete(proj, proj[FindFunction(proj, tool_args.name,
                                                     tool_args.function_id)].id)
            /\ tret' = tret
    /\ UNCHANGED <<tool, tool_args, delete_result, deleted_count>>
    /\ UNCHANGED <<chanVars, ephVars, srvVars, dirVars, codecVars, waitVars,
                   idleVars>>

\* how the delete-actions round trip can end: no response in time, the command
\* not written, or the host's data: an object with a truthy "success", an object
\* without one, a falsy value, a truthy value that is no object
DeleteAnswers == {"timeout", "write_failed", "success", "no_success", "falsy", "nonobject"}

\* what delete_actions returns to delete_function (lines 365-367):
\* `await self._call(...) or {"success": False}`
DeleteResult(answer) ==
    CASE answer \in {"timeout", "falsy"} -> "{success: False}"
      [] answer = "write_failed" -> "{error: Failed to write command}"
      [] answer = "success" -> "{success: True, ...}"
      [] answer = "no_success" -> "{...}"
      [] OTHER -> "nonobject"

\* `if result.get("success")` (line 801); for a result that is no object the
\* AttributeError is taken by the handler of lines 805-806
Succeeded(res) == res = "{success: True, ...}"

\* delete_function: delete_actions(ids_to_delete) and the return (lines 799-806)
delete_function_delete(answer) ==
    /\ tpc = "delete"
    /\ sent' = Append(sent, Command("delete-actions", ids_to_delete, NoParams))
    /\ delete_result' = DeleteResult(answer)
    /\ tpc' = "done"
    /\ tret' = IF Succeeded(DeleteResult(answer)) THEN "deleted" ELSE "not deleted"
    /\ deleted_count' = IF Succeeded(DeleteResult(answer)) THEN Len(ids_to_delete)
                        ELSE 0
    /\ UNCHANGED <<tool, tool_args, project, ids_to_delete>>
    /\ UNCHANGED <<chanVars, ephVars, srvVars, dirVars, codecVars, waitVars,
                   idleVars>>

\* call_tool_async, name == "bas_create_action" (lines 1852-1861): the params
\* normalized, then _client.create_action
bas_create_action(params, ok) ==
    /\ tpc = "idle"
    /\ tool' = "bas_create_action"
    /\ tool_args' = [name |-> None, function_id |-> 0, params |-> params]
    /\ sent' = Append(sent, Command("create-action", <<>>,
                                    normalize_variable_params(params)))
    /\ tpc' = "done"
    /\ tret' = IF ok THEN "created" ELSE "No response"
    /\ UNCHANGED <<project, ids_to_delete, delete_result, deleted_count>>
    /\ UNCHANGED <<chanVars, ephVars, srvVars, dirVars, codecVars, waitVars,
                   idleVars>>

NextTools ==
    \/ \E name \in FunctionNames, function_id \in FunctionIds :
          bas_delete_function(name, function_id)
    \/ \E how \in {"timeout", "write_failed", "answered"}, proj \in Projects :
          delete_function_find(how, proj)
    \/ \E answer \in DeleteAnswers : delete_function_delete(answer)
    \/ \E params \in ParamDicts, ok \in BOOLEAN : bas_create_action(params, ok)

(* ----------------------- the hex mapping, applied ---------------------- *)
\* messages of up to MaxChars code points, drawn from the ends of the ranges
\* UTF-8 encodes in one, two, three and four bytes, the surrogates among them
MaxChars == 2

CodePoints == {10, 48, 65, 127, 128, 233, 2047, 2048, 55295, 55296, 57343, 57344,
               65533, 65535, 65536, 1114111}

RECURSIVE StringsOf(_)
StringsOf(n) ==
    IF n = 0 THEN {<<>>}
    ELSE StringsOf(n - 1) \cup {Append(t, cp) : t \in StringsOf(n - 1), cp \in CodePoints}

Messages == StringsOf(MaxChars)

CodecInit ==
    /\ message = <<>>
    /\ hex_once = <<>>
    /\ hex_twice = <<>>
    /\ back_once = <<>>
    /\ back = <<>>
    /\ cpc = "idle"

\* _string_to_hex(s): the hex of the message, or UnicodeEncodeError
codec_encode(s) ==
    /\ cpc = "idle"
    /\ message' = s
    /\ hex_once' = _string_to_hex(s)
    /\ cpc' = IF _string_to_hex(s) = Fail THEN "rejected" ELSE "encoded"
    /\ UNCHANGED <<hex_twice, back_once, back>>
    /\ UNCHANGED <<chanVars, ephVars, srvVars, dirVars, toolVars, waitVars,
                   idleVars>>

\* _string_to_hex of the hex: the form the host puts on a line
codec_encode_again ==
    /\ cpc = "encoded"
    /\ hex_twice' = _string_to_hex(hex_once)
    /\ cpc' = "encoded twice"
    /\ UNCHANGED <<message, hex_once, back_once, back>>
    /\ UNCHANGED <<chanVars, ephVars, srvVars, dirVars, toolVars, waitVars,
                   idleVars>>

\* inner_hex = self._hex_to_string(line), line 255
codec_decode ==
    /\ cpc = "encoded twice"
    /\ back_once' = _hex_to_string(hex_twice)
    /\ cpc' = "decoded once"
    /\ UNCHANGED <<message, hex_once, hex_twice, back>>
    /\ UNCHANGED <<chanVars, ephVars, srvVars, dirVars, toolVars, waitVars,
                   idleVars>>

\* json_str = self._hex_to_string(inner_hex), line 256
codec_decode_again ==
    /\ cpc = "decoded once"
    /\ back' = IF back_once = Fail THEN Fail ELSE _hex_to_string(back_once)
    /\ cpc' = "decoded"
    /\ UNCHANGED <<message, hex_once, hex_twice, back_once>>
    /\ UNCHANGED <<chanVars, ephVars, srvVars, dirVars, toolVars, waitVars,
                   idleVars>>

NextCodec ==
    \/ \E s \in Messages : codec_encode(s)
    \/ codec_encode_again
    \/ codec_decode
    \/ codec_decode_again

(* ---------------------- the windows of create_action ------------------- *)
\* line 353: timeout=120.0 if execute else 30.0
ExecuteWindow == 120
DefaultWindow == 30

CreateWindow(exec) == IF exec THEN ExecuteWindow ELSE DefaultWindow

\* the operations that take a timeout argument (default 60.0) and the values a
\* caller gives it
TimedOps == {"load_page", "get_page_html_safe", "execute_browser_js"}
TimeoutArgs == {DefaultWindow, 60, ExecuteWindow, 150}

WaitInit ==
    /\ wop = "none"
    /\ op_timeout = 0
    /\ execute = FALSE
    /\ call_timeout = 0
    /\ waited = 0
    /\ wpc = "idle"
    /\ wret = "none"

\* load_page(url, timeout), get_page_html_safe(timeout), execute_browser_js(code,
\* save_to, timeout) up to their create_action(..., execute=True, ...)
timed_op(o, t) ==
    /\ wpc = "idle"
    /\ wop' = o
    /\ op_timeout' = t
    /\ execute' = TRUE
    /\ wpc' = "create"
    /\ UNCHANGED <<call_timeout, waited, wret>>
    /\ UNCHANGED <<chanVars, ephVars, srvVars, dirVars, toolVars, codecVars,
                   idleVars>>

\* create_action called by itself (the bas_create_action tool)
plain_create(exec) ==
    /\ wpc = "idle"
    /\ wop' = "create_action"
    /\ execute' = exec
    /\ wpc' = "create"
    /\ UNCHANGED <<op_timeout, call_timeout, waited, wret>>
    /\ UNCHANGED <<chanVars, ephVars, srvVars, dirVars, toolVars, codecVars,
                   idleVars>>

\* create_action: self._call("create-action", ..., timeout=...)
create_call ==
    /\ wpc = "create"
    /\ call_timeout' = CreateWindow(execute)
    /\ waited' = 0
    /\ wpc' = "waiting"
    /\ UNCHANGED <<wop, op_timeout, execute, wret>>
    /\ UNCHANGED <<chanVars, ephVars, srvVars, dirVars, toolVars, codecVars,
                   idleVars>>

\* the poll goes on, the host has not answered (time in steps of DefaultWindow)
create_wait ==
    /\ wpc = "waiting"
    /\ PollContinues(waited, 0, call_timeout)
    /\ waited' = waited + DefaultWindow
    /\ UNCHANGED <<wop, op_timeout, execute, call_timeout, wpc, wret>>
    /\ UNCHANGED <<chanVars, ephVars, srvVars, dirVars, toolVars, codecVars,
                   idleVars>>

\* the host answers while the poll goes on
create_answered ==
    /\ wpc = "waiting"
    /\ PollContinues(waited, 0, call_timeout)
    /\ wpc' = "done"
    /\ wret' = "answered"
    /\ UNCHANGED <<wop, op_timeout, execute, call_timeout, waited>>
    /\ UNCHANGED <<chanVars, ephVars, srvVars, dirVars, toolVars, codecVars,
                   idleVars>>

\* the poll gives up: _call returns None, create_action the "No response" dict
create_gives_up ==
    /\ wpc = "waiting"
    /\ ~PollContinues(waited, 0, call_timeout)
    /\ wpc' = "done"
    /\ wret' = "No response"
    /\ UNCHANGED <<wop, op_timeout, execute, call_timeout, waited>>
    /\ UNCHANGED <<chanVars, ephVars, srvVars, dirVars, toolVars, codecVars,
                   idleVars>>

NextWait ==
    \/ \E o \in TimedOps, t \in TimeoutArgs : timed_op(o, t)
    \/ \E exec \in BOOLEAN : plain_create(exec)
    \/ create_call
    \/ create_wait
    \/ create_answered
    \/ create_gives_up
(* --------------------------- _wait_for_idle ---------------------------- *)
\* how a get-status round trip can end: no response within the window of _call,
\* the command not written, or the host's data: an object with the two flags, a
\* falsy value, a truthy value that is no object
StatusOutcomes ==
    [how : {"timeout", "write_failed"}, data : {"none"},
     is_executing : {FALSE}, is_task_executing : {FALSE}]
    \cup [how : {"answered"}, data : {"flags"},
          is_executing : BOOLEAN, is_task_executing : BOOLEAN]
    \cup [how : {"answered"}, data : {"falsy", "nonobject"},
          is_executing : {FALSE}, is_task_executing : {FALSE}]

NoAnswer ==
    [how |-> "none", data |-> "none", is_executing |-> FALSE, is_task_executing |-> FALSE]

\* a value returned by get_status: whether it is a dict, whether it has the two
\* flags, and the flags
PyStatus(isdict, flags, e, t) ==
    [isdict |-> isdict, flags |-> flags, is_executing |-> e, is_task_executing |-> t]

\* get_status (lines 406-408):
\* `await self._call("get-status") or {"success": False, "error": "No response"}`;
\* _call gives None after its timeout, {"error": ...} after a failed write, and
\* the host's data otherwise
get_status(out) ==
    CASE out.how = "answered" /\ out.data = "flags" ->
             PyStatus(TRUE, TRUE, out.is_executing, out.is_task_executing)
      [] out.how = "answered" /\ out.data = "nonobject" ->
             PyStatus(FALSE, FALSE, FALSE, FALSE)
      [] OTHER -> PyStatus(TRUE, FALSE, FALSE, FALSE)

\* status.get(key, False)
StatusGet(st, key) == IF st.flags THEN st[key] ELSE FALSE

\* line 447: not status.get("is_executing", False) and
\* not status.get("is_task_executing", False)
SeemsIdle(st) ==
    ~StatusGet(st, "is_executing") /\ ~StatusGet(st, "is_task_executing")

\* the timeout arguments given to _wait_for_idle (default 30.0), and the seconds
\* an answered get-status and the sleep after it take
IdleTimeouts == {DefaultWindow, 60, 90}
StatusDelays == {0, 10}

\* the seconds a get-status round trip that ended as out took, d if it was
\* answered: _call waits its default window for a response
StatusTook(out, d) == IF out.how = "timeout" THEN DefaultWindow ELSE d

IdleInit ==
    /\ ipc = "idle"
    /\ idle_timeout = 0
    /\ elapsed = 0
    /\ idle_status = PyStatus(TRUE, FALSE, FALSE, FALSE)
    /\ last_answer = NoAnswer
    /\ idle_ret = "none"

\* _wait_for_idle(timeout): line 445
wait_for_idle(t) ==
    /\ ipc = "idle"
    /\ idle_timeout' = t
    /\ elapsed' = 0
    /\ ipc' = "loop"
    /\ UNCHANGED <<idle_status, last_answer, idle_ret>>
    /\ UNCHANGED <<chanVars, ephVars, srvVars, dirVars, toolVars, codecVars,
                   waitVars>>

\* one turn of the loop (lines 446-450): get_status, the test of the flags, and
\* the return, the AttributeError of a status that is no dict, or the sleep
idle_turn(out, d) ==
    /\ ipc = "loop"
    /\ PollContinues(elapsed, 0, idle_timeout)
    /\ idle_status' = get_status(out)
    /\ last_answer' = out
    /\ elapsed' = elapsed + StatusTook(out, d)
    /\ IF ~get_status(out).isdict
       THEN ipc' = "done" /\ idle_ret' = "AttributeError"
       ELSE IF SeemsIdle(get_status(out))
       THEN ipc' = "done" /\ idle_ret' = "True"
       ELSE ipc' = "loop" /\ idle_ret' = idle_ret
    /\ UNCHANGED idle_timeout
    /\ UNCHANGED <<chanVars, ephVars, srvVars, dirVars, toolVars, codecVars,
                   waitVars>>

\* the test of the while fails: return False (line 451)
idle_gives_up ==
    /\ ipc = "loop"
    /\ ~PollContinues(elapsed, 0, idle_timeout)
    /\ ipc' = "done"
    /\ idle_ret' = "False"
    /\ UNCHANGED <<idle_timeout, elapsed, idle_status, last_answer>>
    /\ UNCHANGED <<chanVars, ephVars, srvVars, dirVars, toolVars, codecVars,
                   waitVars>>

NextIdle ==
    \/ \E t \in IdleTimeouts : wait_for_idle(t)
    \/ \E out \in StatusOutcomes, d \in StatusDelays : idle_turn(out, d)
    \/ idle_gives_up

vars == <<chanVars, ephVars, srvVars, dirVars, toolVars, codecVars, waitVars,
          idleVars>>

Init ==
    /\ ChanInit /\ EphInit /\ SrvInit /\ DirInit /\ ToolInit /\ CodecInit /\ WaitInit
    /\ IdleInit

Spec == Init /\ [][Next]_vars

\* the steps of the worker thread that runs _read_response, up to the return
Worker ==
    \/ ReadBegin
    \/ PollPass
    \/ \E exc \in OSErrors : PollPassFails(exc)
    \/ \E deleted \in BOOLEAN : Unlink(deleted)
    \/ Sleep
    \/ PollTimeout

\* one call from its start to its return, with a timeout of up to MaxPasses poll
\* intervals, the host writing as it likes
MaxPasses == 2

NextLive ==
    \/ \E k \in {"call", "ping"}, id \in Ids, limit \in 1..MaxPasses,
          io \in {"ok", "open_fails", "write_fails"} :
          ncalls = 0 /\ CallStart(k, id, limit, io)
    \/ Worker
    \/ Tick
    \/ \E line \in HostLines : HostAppend(line)
    \/ \E line \in PartialLines : HostPartial(line)
    \/ HostComplete

\* The executor starts the thread and the thread keeps running: it does not stop
\* in front of a step it can take.  A pass of the loop can be taken exactly where
\* a pass whose read fails can, and every pass is followed by the sleep, so weak
\* fairness of the thread's steps is weak fairness of its steps with the failing
\* pass standing for the pass.  Of the host nothing is assumed.
Running ==
    \/ ReadBegin
    \/ \E exc \in OSErrors : PollPassFails(exc)
    \/ \E deleted \in BOOLEAN : Unlink(deleted)
    \/ Sleep
    \/ PollTimeout

SpecLive == Init /\ [][NextLive]_vars /\ WF_vars(Running)

SpecEph == Init /\ [][NextEph]_vars

SpecServer == Init /\ [][NextServer]_vars

SpecAbandon == Init /\ [][NextAbandon]_vars

SpecDir == Init /\ [][NextDir]_vars

SpecTools == Init /\ [][NextTools]_vars

SpecCodec == Init /\ [][NextCodec]_vars

SpecWait == Init /\ [][NextWait]_vars

SpecIdle == Init /\ [][NextIdle]_vars

(* ------------------------ claims on the channel ----------------------- *)
CommandHex == [c \in Commands |-> _string_to_hex(JsonDumps(c))]

\* the texts of the valid doubly-encoded response lines for each id
ValidResponseTexts ==
    [i \in Ids |-> {DoubleHex(Stringify(JsonObj(i, d))) : d \in DataTokens}]

\* the inbound file holds a valid doubly-encoded response line for id
HoldsResponseFor(file, id) ==
    file # Missing /\ \E i \in 1..Len(file) : LineText[file[i]] \in ValidResponseTexts[id]

\* a step that is one pass of the poll loop
IsPollPass ==
    /\ pc = "poll" /\ PollContinues(clock, start_time, timeout) /\ pc' # "poll"
    /\ os_error' = "none"

\* C1: a response _read_response returns for a call carries the id embedded in
\* the command that call wrote to the outbound file.
C1_ResponseIdIsCommandId ==
    response # NoResponse =>
        \E c \in Commands : outbound = CommandHex[c] /\ c.id = response.id

\* C1 witness: a call returned its response although a response line for another
\* id was in the file and was examined.
C1_Witness ==
    /\ pc = "done"
    /\ response # NoResponse
    /\ \E x \in checked_lines : x.k = "response" /\ x.id # message_id

\* C2: after a successful _write_command the outbound file holds exactly the
\* single-hex encoding of the command just written, nothing of an earlier one.
C2_OutboundIsLastCommand ==
    wrote => outbound = _string_to_hex(JsonDumps(command))

\* C2 witness: the second successful write on the channel.
C2_Witness == wrote /\ nwrites = 2 /\ pc = "written"

\* C8 (as claimed): a poll pass over a file that holds a valid response line for
\* the expected id, among any other lines, yields that response.
C8_MatchAmongNoise ==
    [][(IsPollPass /\ HoldsResponseFor(inbound, message_id))
        => (pc' = "unlink" /\ response'.id = message_id)]_vars

\* the lines of the file that decode to a response object for id
DecodableFor(file, id) ==
    {x \in HostLines : /\ \E i \in 1..Len(file) : file[i] = x
                       /\ DecodeLine(LineText[x]).exc = "none"
                       /\ DecodeLine(LineText[x]).response.id = id}

\* C9: a line that fails to decode (bad hex, bad JSON, JSON that is no object)
\* raises nothing out of _read_response and is not returned as the match; the
\* pass goes on to the lines after it, and the loop to its next iteration.
C9_DecodeFailureSkipped ==
    [][IsPollPass =>
        /\ ~raised'
        /\ pc' \in {"unlink", "sleep"}
        /\ pc' = "unlink" =>
              \E x \in DecodableFor(inbound, message_id) :
                  response' = DecodeLine(LineText[x]).response
        /\ (pc' = "sleep" /\ ReadInbound(FileText(inbound)).exc = "none"
                /\ inbound # Missing) =>
              \A i \in 1..Len(inbound) : inbound[i] \in checked_lines']_vars

\* C9 witness: a pass examined a line that fails to decode and a line after it.
C9_Witness ==
    /\ pc = "sleep"
    /\ inbound # Missing
    /\ Len(inbound) >= 2
    /\ DecodeLine(LineText[inbound[1]]).exc # "none"
    /\ inbound[2] # inbound[1]
    /\ {inbound[1], inbound[2]} \subseteq checked_lines

\* C10: _read_response returns None only when the timeout has elapsed since it
\* began.
C10_NoneOnlyAfterTimeout ==
    (pc = "done" /\ wrote /\ ~raised /\ response = NoResponse)
        => clock - start_time >= timeout

\* C10 witness: a poll during which the inbound file never existed returned None.
C10_Witness ==
    /\ pc = "done" /\ wrote /\ response = NoResponse
    /\ inbound = Missing
    /\ ret = "None"

\* a step in which _read_response returns the response it matched
IsMatchReturn == pc = "unlink" /\ pc' = "done"

\* C11 (as claimed): immediately after _read_response returns a matched response,
\* the inbound file has been deleted, so it no longer holds the consumed line.
C11_ConsumedLineGone == [][IsMatchReturn => inbound' = Missing]_vars

\* C11 (amended): immediately after _read_response returns a matched response,
\* the inbound file either has been deleted or, the unlink having failed, is
\* exactly as it was; the matched response is returned in both cases.
C11_DeletedOrUntouched ==
    [][IsMatchReturn =>
        /\ inbound' = Missing \/ inbound' = inbound
        /\ response' = response
        /\ response.id = message_id]_vars

\* C11 witness: a matched response was returned and the file, which held a
\* second line, is gone.
C11_Witness ==
    /\ pc = "done"
    /\ response # NoResponse
    /\ inbound = Missing
    /\ Cardinality(checked_lines) >= 2

\* a step in which a call or a ping begins: _next_id, the command, its write
IsCallStart == ncalls' = ncalls + 1

\* the line of the file a pass for id matches: the first that decodes to a
\* response object with that id
MatchedIndex(file, id) ==
    CHOOSE i \in 1..Len(file) :
        /\ file[i] \in DecodableFor(file, id)
        /\ \A j \in 1..(i - 1) : file[j] \notin DecodableFor(file, id)

\* C12: with each call issued only after the one before it resolved, no call
\* returns a response the host produced for another call's command: the line a
\* call matches was written after that call's command (the host's responses
\* echo the id of a command it has been sent).
C12_NoCrossMatch ==
    [][(IsPollPass /\ pc' = "unlink") => MatchedIndex(inbound, message_id) > nstale]_vars

\* C13: the id _next_id chooses for a call differs from the id of every earlier
\* request that timed out, whose response may still arrive or sit in the file.
C13_FreshId == [][IsCallStart => message_id' \notin outstanding]_vars

\* C14: what a call returns when the host answered, whatever the data of the
\* answer, differs from what it returns when the host did not answer before the
\* timeout (every public operation builds its result from this value alone).
C14_TimeoutDistinguishable ==
    (pc = "done" /\ kind = "call" /\ wrote /\ response # NoResponse)
        => ret # ReturnValue("call", NoResponse)

\* C15: when _write_command fails, _call returns {"error": "Failed to write
\* command"} and ping returns False at once: the inbound file is left as it is,
\* no write is made again, and until the next call no poll runs, nothing of the
\* inbound file is read and the file is not deleted.
C15_WriteFailureReturnsAtOnce ==
    [][/\ (IsCallStart /\ ~wrote') =>
             /\ pc' = "done"
             /\ ret' = IF kind' = "ping" THEN "False" ELSE "WriteFailed"
             /\ inbound' = inbound
             /\ nwrites' = nwrites
       /\ (pc = "done" /\ ~wrote /\ ~IsCallStart) =>
             /\ pc' = "done"
             /\ UNCHANGED <<ret, outbound, nwrites, checked_lines, response>>
             /\ inbound = Missing \/ inbound' # Missing]_vars

\* C15 witness: a call whose write failed has returned the failure payload, after
\* an earlier call whose write succeeded, the inbound file still being there.
C15_Witness ==
    /\ pc = "done" /\ ~wrote /\ kind = "call" /\ ret = "WriteFailed"
    /\ nwrites = 1 /\ ncalls = 2
    /\ inbound # Missing

\* a pass of the poll whose exists() or read_text() raised
IsFailedRead == pc = "poll" /\ os_error' # "none"

\* C16: no condition of the file system makes _write_command or _read_response
\* raise: a write that cannot be made is reported as False (the caller returns
\* its failure value), and a pass that cannot read the inbound file reports no
\* match and leaves the loop running to its next iteration or its timeout.
C16_FileSystemErrorsNotRaised ==
    [][/\ ~raised' /\ ret' # "Raised"
       /\ (IsCallStart /\ outbound' # _string_to_hex(JsonDumps(command'))) =>
             (~wrote' /\ ret' \in {"False", "WriteFailed"})
       /\ IsFailedRead =>
             (pc' = "sleep" /\ response' = NoResponse /\ ret' = ret)]_vars

\* C16 witness: after a call whose write failed, the pass of the next call could
\* not read the inbound file, and the poll is at its sleep with nothing raised.
C16_Witness ==
    /\ pc = "sleep" /\ os_error = "PermissionError" /\ ~raised
    /\ wrote /\ nwrites = 1 /\ ncalls = 2
    /\ inbound # Missing

\* the call returns to its caller in this step
IsReturn == pc' = "done" /\ (pc # "done" \/ IsCallStart)

\* C17: ping returns True exactly when a pass of its poll, made before the
\* timeout, found in the inbound file a line that decodes to a response with the
\* id of the ping command, whatever the data of that response (true, false, null
\* or no data member at all); it returns False when the write failed or the poll
\* ran out of time.
C17_PingTrueIffMatched ==
    [][/\ (kind' = "ping" /\ IsReturn) =>
             ret' = IF IsMatchReturn THEN "True" ELSE "False"
       /\ (kind = "ping" /\ IsMatchReturn) =>
             /\ response.id = message_id
             /\ PollContinues(clock, start_time, timeout)
       /\ (kind = "ping" /\ IsPollPass /\ pc' = "unlink") =>
             \E x \in DecodableFor(inbound, message_id) :
                 response' = DecodeLine(LineText[x]).response]_vars

\* C17 witness: ping has returned True on a response whose data is false.
C17_Witness ==
    /\ pc = "done" /\ kind = "ping" /\ ret = "True"
    /\ response # NoResponse /\ response.id = message_id /\ response.data = "false"

\* the lines the host's messages give when the hex mapping is applied once
SingleLayerTexts == {_string_to_hex(Stringify(v)) : v \in HostJsonValues}

\* C21: a line is taken for the response only when inverting the hex mapping
\* twice gives the text of a message; a line made by one application of the
\* mapping to a message (the host's handshake among them) fails at the second
\* inversion whatever the message is, and is never the match.
C21_TwoInversions ==
    [][(IsPollPass /\ pc' = "unlink") =>
          /\ \E i \in 1..Len(inbound) :
                 /\ LineText[inbound[i]] = DoubleHex(Stringify(response'))
                 /\ LineText[inbound[i]] \notin SingleLayerTexts
          /\ \A text \in SingleLayerTexts : DecodeLine(text).exc = "ValueError"]_vars

\* C21 witness: the call with the id of the handshake message has passed over the
\* handshake line and matched the doubly-encoded response after it.
C21_Witness ==
    /\ pc = "unlink" /\ message_id = 1
    /\ Len(inbound) = 2
    /\ inbound[1] = Named("handshake") /\ inbound[1] \in checked_lines
    /\ inbound[2].k = "response" /\ response.id = 1

\* a call that has written its command returns
CallTerminates == (pc \in {"written", "poll", "sleep", "unlink"}) ~> (pc = "done")

\* the step that ends a poll at its deadline
IsTimeout == pc = "poll" /\ ~PollContinues(clock, start_time, timeout) /\ pc' # "poll"

\* C28: the channel does not retry.  A call writes the outbound file once, at its
\* start, and no other step writes it; its poll is started once, after that
\* write; a poll that runs out of time returns None to _call (False from ping)
\* without a write, and after the return nothing happens until the caller's next
\* call.
C28_TimedOutCallNotRetried ==
    [][/\ IsCallStart => /\ nwrites' = nwrites + (IF wrote' THEN 1 ELSE 0)
                          /\ wrote' <=> pc' = "written"
       /\ ~IsCallStart => nwrites' = nwrites /\ outbound' = outbound
       /\ (pc # "written" /\ pc' = "written") => IsCallStart
       /\ (pc \notin {"poll", "sleep"} /\ pc' = "poll") => pc = "written"
       /\ IsTimeout => /\ pc' = "done"
                        /\ response' = NoResponse
                        /\ ret' = (IF kind = "ping" THEN "False" ELSE "None")
       /\ (pc = "done" /\ ~IsCallStart) => pc' = "done"]_vars

\* two calls have timed out, each after its one write
C28_Witness ==
    /\ pc = "done" /\ kind = "call" /\ ret = "None" /\ response = NoResponse
    /\ ncalls = 2 /\ nwrites = 2 /\ wrote
    /\ message_id \in outstanding
    /\ ~PollContinues(clock, start_time, timeout)

\* the lines of the file a pass goes through: all of them, or those up to the
\* match
Scanned ==
    IF inbound = Missing THEN {}
    ELSE IF pc' = "unlink"
    THEN {inbound[i] : i \in 1..MatchedIndex(inbound, message_id)}
    ELSE {inbound[i] : i \in 1..Len(inbound)}

\* C29 (as claimed): a call forgets no line it has examined before it returns,
\* so that no line is decoded twice, and a pass of its loop examines every line
\* of the file up to the match that the call has not examined before, the
\* completed form of a line it saw in part included.
C29_EachLineExaminedOnce ==
    [][/\ (pc \in {"poll", "sleep"} /\ pc' \in {"poll", "sleep", "unlink"}) =>
              checked_lines \subseteq checked_lines'
       /\ IsPollPass => checked_lines' = checked_lines \cup Scanned]_vars

\* the same of the passes that could read the file
ReadablePassExaminesNewLines ==
    [][/\ (pc \in {"poll", "sleep"} /\ pc' \in {"poll", "sleep", "unlink"}) =>
              checked_lines \subseteq checked_lines'
       /\ (IsPollPass /\ ReadInbound(FileText(inbound)).exc = "none") =>
              checked_lines' = checked_lines \cup Scanned]_vars

\* a pass examined the part of a line and a later pass matched the whole line
PartialThenWhole ==
    /\ pc = "unlink" /\ response.id = message_id
    /\ \E x \in checked_lines : x.k = "partial" /\ x.id = message_id
    /\ \A i \in 1..Len(inbound) : inbound[i].k # "partial"

\* C32 (as claimed): when a poll ends at its deadline and None is returned, the
\* inbound file holds no response line for the expected id: a response the host
\* wrote before the return is never reported absent.
C32_NoneMeansNoResponseInFile ==
    [][IsTimeout => ~HoldsResponseFor(inbound, message_id)]_vars

\* the lines the host appended to the inbound file after the matching pass read it
AppendedSinceRead ==
    IF inbound = Missing THEN {}
    ELSE {i \in 1..Len(inbound) : i > NumLines(content)}

\* C33 (as claimed): the unlink on a match discards only content the poll read:
\* a line the host appended between the read of the file and the unlink is still
\* in the inbound file when the call has returned.
C33_UnlinkDiscardsOnlyReadContent ==
    [][(pc = "unlink" /\ pc' = "done") =>
          \A i \in AppendedSinceRead :
              inbound' # Missing /\ i <= Len(inbound') /\ inbound'[i] = inbound[i]]_vars

\* the call in progress is inside _read_response and has not matched
Reading == pc \in {"written", "poll", "sleep"}

\* a step of the host: the inbound file grows by a line, the call stays where it is
IsHostWrite ==
    /\ pc' = pc
    /\ NumLines(inbound') = NumLines(inbound) + 1
    /\ \A i \in 1..NumLines(inbound) : inbound'[i] = inbound[i]

\* C34: a _read_response that ends by timeout leaves the inbound file as the host
\* left it: until it matches, the file changes only by the host's writes and by
\* the file being removed under the reader, and the timeout step itself leaves it
\* alone; and no step of a _read_response changes the outbound file.
C34_TimeoutLeavesFilesAlone ==
    [][/\ (Reading /\ inbound' # inbound) =>
              (IsHostWrite \/ os_error' = "FileNotFoundError")
       /\ IsTimeout => inbound' = inbound
       /\ (Reading \/ pc = "unlink") => outbound' = outbound]_vars

\* C34 witness: a call timed out after a pass that examined lines of the inbound
\* file; the file still holds them and the outbound file holds the command.
C34_Witness ==
    /\ pc = "done" /\ wrote /\ ~raised
    /\ response = NoResponse
    /\ checked_lines # {}
    /\ inbound # Missing
    /\ \A x \in checked_lines : \E i \in 1..Len(inbound) : inbound[i] = x
    /\ outbound = CommandHex[command]

(* ------------------ claims on the ephemeral operations ---------------- *)
CallsOf(type) == {i \in 1..Len(calls) : calls[i].type = type}

IdsOf(c) == {c.ids[i] : i \in 1..Len(c.ids)}

\* the action ids the create responses of the invocation carried
ObtainedIds ==
    IF op = "check_element" THEN {action_ids[i] : i \in 1..Len(action_ids)}
    ELSE IF result.kind = "dict" /\ result.action_id # 0 THEN {result.action_id}
    ELSE {}

SingleActionOps == EphOps \ {"check_element"}

\* C3 (as stated): when an operation returns on its success path or on a failure
\* path (host-reported failure, create timeout, write failure), it has issued as
\* many delete-actions calls as create-action calls.
C3_CreatesEqualDeletes ==
    (epc = "returned" /\ ~handled) =>
        Cardinality(CallsOf("create-action")) = Cardinality(CallsOf("delete-actions"))

\* C3 (amended): when an operation returns on one of those paths, a single-action
\* operation has issued one create-action call and check_element three; it has
\* issued one delete-actions call, naming exactly the action ids its create
\* responses carried, if any create response carried one, and none otherwise.
C3_DeletesMatchObtainedIds ==
    (epc = "returned" /\ ~handled) =>
        /\ Cardinality(CallsOf("create-action")) =
               IF op = "check_element" THEN 3 ELSE 1
        /\ Cardinality(CallsOf("delete-actions")) =
               IF ObtainedIds = {} THEN 0 ELSE 1
        /\ \A i \in CallsOf("delete-actions") :
               /\ IdsOf(calls[i]) = ObtainedIds
               /\ \A j \in CallsOf("create-action") : j < i

\* check_element returns normally after three creates that each carried an id
\* and one batch delete
C3_Witness ==
    /\ epc = "returned" /\ ~handled /\ op = "check_element"
    /\ Len(action_ids) = 3
    /\ Cardinality(CallsOf("create-action")) = 3
    /\ Cardinality(CallsOf("delete-actions")) = 1

\* C4: when an operation returns, on every exit path, each action id a create
\* response carried has been named in a delete-actions call the operation made
\* (a delete whose write failed counts as made).
C4_ObtainedIdIsDeleted ==
    epc = "returned" =>
        \A a \in ObtainedIds : \E i \in CallsOf("delete-actions") : a \in IdsOf(calls[i])

\* C5: when an operation returns, no action the host created for it still
\* exists in the host (the project held no action when the operation began).
C5_NoTransientSurvives == epc = "returned" => hostActions = {}

\* C6: when load_page, get_page_html_safe, execute_browser_js or take_screenshot
\* returns and the create response's execution_result was not "completed"
\* (absent included), the last call it made is a delete naming the returned
\* action_id, if one was returned, and it returns success false with the host's
\* execution_error, if one was supplied, as the error.
C6_FailedExecutionCleansUpAndReports ==
    (/\ epc = "returned"
     /\ op \in SingleActionOps
     /\ result.kind = "dict"
     /\ result.execution_result # "completed") =>
        /\ result.action_id # 0 =>
               /\ calls[Len(calls)].type = "delete-actions"
               /\ calls[Len(calls)].ids = <<result.action_id>>
        /\ eret.success = FALSE
        /\ result.execution_error # Absent => eret.error = <<result.execution_error>>

\* execution failed in the host, which supplied an action id and an error detail
C6_Witness ==
    /\ epc = "returned" /\ op = "execute_browser_js"
    /\ result.execution_result = "failed" /\ result.action_id # 0
    /\ result.execution_error = "boom" /\ eret.error = <<"boom">>
    /\ Cardinality(CallsOf("delete-actions")) = 1

\* what the operation returns, from what the create and get-variable round trips
\* returned alone
PrimaryResult ==
    CASE op = "load_page" -> load_page_return(result)
      [] op = "get_page_html_safe" -> get_page_html_safe_return(result, var_results)
      [] op = "take_screenshot" -> take_screenshot_return(result, var_results)
      [] op = "execute_browser_js" ->
             execute_browser_js_return(result, save_to, var_results)
      [] OTHER -> IF result.kind # "dict" \/ ParseRaises(var_results)
                  THEN Failure(AttributeError)
                  ELSE check_element_return(var_results)

\* C7: when an operation returns after a delete-actions round trip, whatever the
\* outcome of that round trip, it returns what the results of the create and
\* get-variable round trips determine.
C7_DeleteOutcomeIgnored ==
    (epc = "returned" /\ calls # <<>> /\ calls[Len(calls)].type = "delete-actions")
        => eret = PrimaryResult

\* a successful read whose trailing delete was not written, timed out, or was
\* refused by the host
C7_Witness ==
    /\ epc = "returned" /\ op = "get_page_html_safe"
    /\ calls # <<>> /\ calls[Len(calls)].type = "delete-actions"
    /\ ~calls[Len(calls)].ok
    /\ eret.success /\ eret.value = "3"


\* the calls of a type, in the order they were issued
CallsSeq(type) == SelectSeq(calls, LAMBDA c : c.type = type)

\* this step issues a get-variable round trip
IsGetVariable ==
    Len(calls') = Len(calls) + 1 /\ calls'[Len(calls')].type = "get-variable"

\* C22 (as claimed): the get-variable round trip that reads a named result is
\* issued only after the create-and-execute response of the action that produces
\* the result reported execution_result "completed" (in check_element the n-th
\* get-variable reads the variable the n-th create saves).
C22_ReadOnlyAfterCompleted ==
    [][IsGetVariable =>
          CallsSeq("create-action")[Len(CallsSeq("get-variable")) + 1]
              .execution_result = "completed"]_vars

\* C23 (as claimed): when check_element returns, the action ids its three creates
\* returned have been named, all of them, by exactly one delete-actions command,
\* and that command came after the three get-variable round trips.
C23_OneBatchDeleteAfterReads ==
    (epc = "returned" /\ op = "check_element" /\ action_ids # <<>>) =>
        /\ Cardinality(CallsOf("delete-actions")) = 1
        /\ \A i \in CallsOf("delete-actions") :
               /\ calls[i].ids = action_ids
               /\ Cardinality({j \in CallsOf("get-variable") : j < i}) = 3

\* C27 (as claimed): when check_element returns and one of its creates got no
\* response or a response whose execution_result is not "completed", it returns
\* success false, with the host's execution_error, if one was supplied, as the
\* error.
C27_CheckElementReportsFailure ==
    (epc = "returned" /\ op = "check_element") =>
        \A i \in CallsOf("create-action") :
            calls[i].execution_result # "completed" =>
                /\ eret.success = FALSE
                /\ (result.kind = "dict" /\ result.execution_result # "completed"
                        /\ result.execution_error # Absent)
                      => eret.error = <<result.execution_error>>

\* the state of the ephemeral-action machine a round trip belongs to: CREATE and
\* EXECUTING (1), READ_RESULT (2), CLEANUP (3)
Phase(c) ==
    IF c.type = "create-action" THEN 1 ELSE IF c.type = "get-variable" THEN 2 ELSE 3

\* C26 (as claimed): an operation that has returned has made a bounded number of
\* round trips (a create, a read and a delete for each action it creates, at
\* most), in the order CREATE and EXECUTING, READ_RESULT, CLEANUP; it has read
\* results only if every action it created was reported completed (FAILED leads
\* to CLEANUP, not to READ_RESULT), and it has cleaned up once.
C26_EndThroughStates ==
    (epc = "returned") =>
        /\ Len(calls) <= (IF op = "check_element" THEN 7 ELSE 3)
        /\ \A i, j \in 1..Len(calls) : i < j => Phase(calls[i]) <= Phase(calls[j])
        /\ CallsOf("get-variable") # {} =>
               \A i \in CallsOf("create-action") :
                   calls[i].execution_result = "completed"
        /\ Cardinality(CallsOf("delete-actions")) <= 1
        /\ ObtainedIds # {} => Cardinality(CallsOf("delete-actions")) = 1

\* the delete-actions commands of the invocation that name action id a
DeletesNaming(a) ==
    {i \in CallsOf("delete-actions") :
        \E k \in 1..Len(calls[i].ids) : calls[i].ids[k] = a}

\* C35 (as claimed): within one invocation of an ephemeral operation each
\* transient action id is named in at most one delete-actions command, on every
\* path, the exception handler of check_element included.
C35_EachIdDeletedAtMostOnce ==
    \A a \in 1..MaxActionId : Cardinality(DeletesNaming(a)) <= 1

(* ----------------------- claims on the request loop --------------------- *)
\* C18: under the server's request loop at most one command is in flight: no
\* line is read from stdin and no command is written while the _read_response of
\* an earlier command has not returned (by its match or by its timeout), and
\* that holds for every round trip of a tool that makes several.
C18_OneCommandInFlight ==
    [][/\ Cardinality(InFlight') <= 1
       /\ nread' # nread => InFlight = {}
       /\ Len(poll') # Len(poll) => InFlight = {}]_vars

\* C18 witness: the second round trip of a tool is in flight, in the second
\* tools/call the server handles.
C18_Witness ==
    /\ srv_pc = "run" /\ co_pc = "await" /\ nread = 2
    /\ Len(poll) = 3 /\ poll[3] = "running" /\ poll[2] = "timeout" /\ poll[1] = "match"
    /\ Len(stdout) = 1


\* the caller gives up the await in this step
IsAbandon == abandoned' # abandoned

\* C20: when the caller gives up an awaited _call, a _read_response that was
\* started for it is not stopped: it goes on in its thread until it returns its
\* match or, at its timeout, None; only the caller stops waiting.
C20_AbandonedPollRunsOn ==
    [][/\ \A i \in 1..Len(poll) :
             poll[i] = "running" => poll'[i] \in {"running", "match", "timeout"}
       /\ IsAbandon => /\ co_pc = "await" /\ co_pc' = "step" /\ awaited' = 0
                       /\ poll[awaited] = "running" => poll' = poll]_vars

\* C20 witness: a poll whose caller gave up has later returned its match, while
\* the command the caller wrote next is in flight.
C20_Witness ==
    \E i \in abandoned : /\ poll[i] = "match"
                         /\ i < Len(poll) /\ poll[i + 1] = "running"


(* ------------------ claims on two clients in a directory ---------------- *)
\* the files of the client
FilesOf(c) ==
    IF bas_pid[c] = NoPid THEN {}
    ELSE {helper_to_bas(bas_pid[c]), bas_to_helper(bas_pid[c])}

\* nothing of client c changes in this step: not its state, not its files
Untouched(c) ==
    /\ client'[c] = client[c]
    /\ \A path \in FilesOf(c) : fs'[path] = fs[path]

\* C19: two clients made for distinct process ids in one directory have no file
\* in common; every step (a write, a host's answer, a match with its unlink, a
\* timeout) of one channel leaves the state and both files of the other as they
\* were, and what a client matches was written by the host of its own pid to
\* the command it wrote itself.
C19_ChannelsIndependent ==
    [][/\ FilesOf(1) \cap FilesOf(2) = {}
       /\ Untouched(1) \/ Untouched(2)
       /\ \A c \in Clients :
             client'[c].response # NoMatch =>
                 /\ client'[c].response.host = bas_pid[c]
                 /\ client'[c].response.id = client'[c].id]_vars

\* C19 witness: both clients use the same message id; client 1 has matched and
\* unlinked its inbound file while client 2 still polls and the answer of its own
\* host waits in its own inbound file.
C19_Witness ==
    /\ bas_pid[1] = 1 /\ bas_pid[2] = MaxPid
    /\ client[1].pc = "done" /\ client[1].response # NoMatch
    /\ client[2].pc = "poll" /\ client[2].id = client[1].id
    /\ fs[bas_to_helper(bas_pid[1])] = NoSuchFile
    /\ HasId(fs[bas_to_helper(bas_pid[2])], client[2].id)


\* the lines read that main has finished with and that are due a reply: the
\* non-empty ones other than a notifications/initialized request
DueReply ==
    {n \in 1..Len(requests) :
        /\ requests[n].k \notin {"eof", "blank", "notifications/initialized"}
        /\ ~(srv_pc = "run" /\ n = Len(requests))}

\* the line parsed as a JSON object
IsJsonObject(r) == r.k \notin {"eof", "blank", "badjson", "nonobject"}

\* C36 (as claimed): the server has printed exactly one reply for every non-empty
\* line it has finished with, none for notifications/initialized, in the order
\* the lines were read; and the reply to a line that parsed as a JSON object
\* carries the id of that request, also when handling the request failed.
C36_OneReplyPerRequestWithItsId ==
    /\ {stdout[i].line : i \in 1..Len(stdout)} = DueReply
    /\ \A i, j \in 1..Len(stdout) : i < j => stdout[i].line < stdout[j].line
    /\ \A i \in 1..Len(stdout) :
           IsJsonObject(requests[stdout[i].line]) =>
               stdout[i].id = req_id(requests[stdout[i].line], stdout[i].line)

(* ------------------------ claims on the tools --------------------------- *)
\* the ids of the functions of the project that are named name
FunctionIdsNamed(proj, name) ==
    {proj[i].id : i \in {j \in 1..Len(proj) :
                            proj[j].type = "section_insert" /\ proj[j].comment = name}}

\* C24 (as claimed): no bas_delete_function call, whatever its name and
\* function_id arguments, issues a delete-actions command that names the id of
\* the function "OnApplicationStart".
C24_MainFunctionNeverDeleted ==
    \A i \in 1..Len(sent) :
        sent[i].type = "delete-actions" =>
            \A j \in 1..Len(sent[i].ids) :
                sent[i].ids[j] \notin FunctionIdsNamed(project, "OnApplicationStart")

\* what the docstring of normalize_variable_params says of a string value, for
\* the variable name X: VAR_X under a save key is X, VAR_X under a value key is
\* [[X]], [[VAR_X]] is [[X]]; of other values it says nothing
DocCovers(key_lower, text) ==
    \/ text = Open \o VAR_ \o <<88>> \o Close
    \/ text = VAR_ \o <<88>> /\ key_lower \in SAVE_PARAMS \cup VALUE_PARAMS

DocSays(key_lower, text) ==
    IF text = VAR_ \o <<88>> /\ key_lower \in SAVE_PARAMS THEN <<88>>
    ELSE Open \o <<88>> \o Close

\* C25 (as claimed): the params bas_create_action passes on are the caller's
\* params rewritten as the docstring states, for every key; a value that is no
\* string is passed on as it is.
C25_NormalizedAsDocumented ==
    (tool = "bas_create_action" /\ tpc = "done" /\ tool_args.params # NoParams) =>
        /\ sent[1].params.key = tool_args.params.key
        /\ ~tool_args.params.str => sent[1].params = tool_args.params
        /\ (tool_args.params.str
              /\ DocCovers(Lower(tool_args.params.key), tool_args.params.text)) =>
             sent[1].params.text =
                 DocSays(Lower(tool_args.params.key), tool_args.params.text)


\* the action with the given id lies inside f: its parent is f, or lies inside f
RECURSIVE LiesInside(_, _, _, _)
LiesInside(proj, f, id, depth) ==
    /\ depth > 0
    /\ \E i \in 1..Len(proj) :
           /\ proj[i].id = id
           /\ proj[i].parent_id = f \/ LiesInside(proj, f, proj[i].parent_id, depth - 1)

\* the ids of all actions inside the function f of the project
Inside(proj, f) ==
    {proj[i].id : i \in {j \in 1..Len(proj) : LiesInside(proj, f, proj[j].id, Len(proj))}}

\* the delete-actions commands the tool issued
Deletes == {i \in 1..Len(sent) : sent[i].type = "delete-actions"}

\* delete_function found the function it was asked for
FunctionFound ==
    /\ tool = "bas_delete_function" /\ tpc = "done"
    /\ FindFunction(project, tool_args.name, tool_args.function_id) # 0

\* C37 (as claimed): when delete_function has found the function, it has issued
\* one delete-actions command, whose id list is the function's id followed by
\* the ids of all actions inside the function; and it reports a deleted_count,
\* the length of that list, only when the host answered the delete with success.
C37_DeletesFunctionAndContents ==
    FunctionFound =>
        LET f == project[FindFunction(project, tool_args.name,
                                      tool_args.function_id)].id
        IN /\ Cardinality(Deletes) = 1
           /\ \A i \in Deletes :
                  /\ sent[i].ids[1] = f
                  /\ {sent[i].ids[k] : k \in 2..Len(sent[i].ids)} = Inside(project, f)
                  /\ Len(sent[i].ids) = 1 + Cardinality(Inside(project, f))
                  /\ deleted_count # 0 =>
                         /\ delete_result = "{success: True, ...}"
                         /\ deleted_count = Len(sent[i].ids)

(* ------------------------ claims on the hex mapping --------------------- *)
\* text holds the characters 0-9 and a-f only
HexOnly(text) ==
    \A i \in 1..Len(text) : (text[i] >= 48 /\ text[i] <= 57) \/ (text[i] >= 97 /\ text[i] <= 102)

\* C30: for every message _string_to_hex accepts, its hex and the hex of its hex
\* hold the characters 0-9 and a-f only, _hex_to_string gives the hex back from
\* the hex of the hex, and the message back from the hex: decoding once undoes
\* encoding once, decoding twice undoes encoding twice.
C30_HexRoundTrip ==
    /\ cpc \in {"encoded", "encoded twice", "decoded once", "decoded"} => HexOnly(hex_once)
    /\ cpc \in {"encoded twice", "decoded once", "decoded"} => HexOnly(hex_twice)
    /\ cpc \in {"decoded once", "decoded"} => back_once = hex_once
    /\ cpc = "decoded" => back = message

\* a message of one character of three bytes and one of four bytes has come back
C30_Witness ==
    /\ cpc = "decoded"
    /\ message = <<65533, 1114111>>
    /\ Len(hex_once) = 14 /\ Len(hex_twice) = 28
    /\ back = message

(* ------------------------ claims on _wait_for_idle ---------------------- *)
\* the host answered the last get-status with both flags false
HostReportedIdle ==
    /\ last_answer.how = "answered" /\ last_answer.data = "flags"
    /\ ~last_answer.is_executing /\ ~last_answer.is_task_executing

\* C38 (as claimed): _wait_for_idle returns True only if the host answered a
\* get-status reporting is_executing and is_task_executing both false; when the
\* host has not reported idle before the timeout, not responding at all
\* included, it returns False.
C38_TrueOnlyWhenHostReportedIdle ==
    ipc = "done" =>
        /\ idle_ret = "True" => HostReportedIdle
        /\ ~HostReportedIdle => idle_ret = "False"

(* -------------------- claims on the windows of create ------------------- *)
\* C31 (as claimed): the create round trip of load_page, get_page_html_safe and
\* execute_browser_js gives up when it has waited the operation's timeout
\* argument; create_action called by itself gives up after 120 seconds with
\* execute and after 30 without.
C31_TimeoutArgumentIsTheWindow ==
    (wpc = "done" /\ wret = "No response") =>
        waited = (IF wop \in TimedOps THEN op_timeout ELSE CreateWindow(execute))

====
